---- MODULE Spec2Model ----
(***************************************************************************)
(* Session manager of the PokemonVGC backend (backend/server_backup.js):   *)
(* access tokens, refresh-token issuance / rotation / revocation, the      *)
(* authMiddleware + requireRole gate and the admin set-role route; the     *)
(* browser tab that holds a session (login, logout, authFetch and the      *)
(* logout timer); the damage calculator POST /api/dmgcalc, whose           *)
(* arithmetic is that of IEEE 754 doubles; and the write routes of the gym *)
(* tracker (start-gym, mark-gym-complete, fix-gym-end-date, the Elite Four *)
(* routes).                                                                *)
(*                                                                         *)
(* Every HTTP request is a process held in a request slot.  Each `await q` *)
(* of a handler is one atomic step of the database; the synchronous code   *)
(* that runs between two awaits belongs to the step that follows it, and a *)
(* request enters its slot with its first query.  Every query may also be  *)
(* rejected by the database, which the handlers' try/catch turns into a    *)
(* 500 response.                                                           *)
(*                                                                         *)
(* Time is counted in ticks.  crypto.randomBytes(48) is modelled by a      *)
(* counter: every issued refresh token is a value never issued before.     *)
(***************************************************************************)
EXTENDS Integers, Sequences, FiniteSets, TLC

\* ---------------------------------------------------------------- bounds
MaxTime == 2     \* the clock stops advancing here
MaxToken == 3    \* refresh tokens issued in one behaviour

\* ------------------------------------------------------ program constants
ACCESS_SECRET == "dev-access-secret"
ACCESS_EXPIRES == 1          \* '15m', in ticks
REFRESH_LIFETIME_MS == 1     \* 7 days, in ticks

\* request slots: two requests are in flight at the same time
Reqs == {1, 2}
\* authMiddleware and requireRole are synchronous: requests pass the gate
\* one at a time
GateReqs == {1}
UserIds == {1, 2}
Roles == {"admin", "player"}

\* users table after registration: one admin, one player
InitUsers ==
  [u \in UserIds |->
     IF u = 1 THEN [id |-> 1, email |-> "a@x", pass |-> <<"bcrypt", "pwA">>, role |-> "admin"]
              ELSE [id |-> 2, email |-> "b@x", pass |-> <<"bcrypt", "pwB">>, role |-> "player"]]

\* refresh_tokens when the server starts: the session of an earlier login of
\* the player, token 1
InitToken == [user_id |-> 2, token |-> 1, expires_at |-> REFRESH_LIFETIME_MS]

VARIABLES users, admin, refresh_tokens, now, nextToken, req, held,
          tab, calls, calc, kept,
          user_gym_progress, user_elite_four_progress, preq

\* the gym tracker: its two tables and its requests
gymVars == <<user_gym_progress, user_elite_four_progress, preq>>

vars == <<users, admin, refresh_tokens, now, nextToken, req, held,
          tab, calls, calc, kept, gymVars>>

\* ------------------------------------------------------------ JSON values
NoUser == [id |-> 0, role |-> ""]
NoUserRow == [id |-> 0, email |-> "", pass |-> <<>>, role |-> ""]
NoOutUser == [id |-> 0, email |-> "", role |-> ""]
NoRow == [user_id |-> 0, expires_at |-> 0]
NoToken == [raw |-> "", sub |-> 0, role |-> "", exp |-> 0, sig |-> <<>>]
Malformed == [raw |-> "garbage", sub |-> 0, role |-> "", exp |-> 0, sig |-> <<>>]
NoHeader == [scheme |-> "", rest |-> <<>>]
NoHeld == [accessToken |-> NoToken, user |-> NoOutUser]

\* refresh tokens in request bodies: 0 is the missing / empty value,
\* Garbage a non-empty string the server never issued
Garbage == 0 - 1

\* HMAC of the claims under a secret
Signature(secret, sub, role, exp) == <<secret, sub, role, exp>>

\* -------------------------------------------------------- access tokens
signAccessToken_RolePlayer(user, t) ==
  [raw |-> "jwt", sub |-> user.id, role |-> "player", exp |-> t + ACCESS_EXPIRES,
   sig |-> Signature(ACCESS_SECRET, user.id, "player", t + ACCESS_EXPIRES)]

signAccessToken(user, t) ==
  [raw |-> "jwt", sub |-> user.id, role |-> user.role, exp |-> t + ACCESS_EXPIRES,
   sig |-> Signature(ACCESS_SECRET, user.id, user.role, t + ACCESS_EXPIRES)]

\* jwt.verify(token, ACCESS_SECRET) does not throw
jwtVerify_NoExpiry(token, t) ==
  /\ token.raw = "jwt"
  /\ token.sig = Signature(ACCESS_SECRET, token.sub, token.role, token.exp)

jwtVerify(token, t) ==
  /\ token.raw = "jwt"
  /\ token.sig = Signature(ACCESS_SECRET, token.sub, token.role, token.exp)
  /\ t < token.exp

\* const [, token] = header.split(' ')
HeaderToken(header) == IF Len(header.rest) >= 1 THEN header.rest[1] ELSE NoToken

\* req.user = { id: payload.sub, role: payload.role }
authMiddlewareUser_FromDb(payload) ==
  [id |-> payload.sub,
   role |-> IF payload.sub \in UserIds THEN users[payload.sub].role ELSE payload.role]

authMiddlewareUser(payload) == [id |-> payload.sub, role |-> payload.role]

\* status answered by authMiddleware, 0 when it calls next()
authMiddleware(header, t) ==
  IF HeaderToken(header).raw = "" THEN 401
  ELSE IF jwtVerify(HeaderToken(header), t) THEN 0
  ELSE 401

\* status answered by requireRole(role), 0 when it calls next()
requireRole_Unauthorized(role, user) ==
  IF user = NoUser \/ user.role # role THEN 401 ELSE 0

requireRole(role, user) ==
  IF user = NoUser \/ user.role # role THEN 403 ELSE 0

\* ------------------------------------------------------- refresh tokens
\* INSERT INTO refresh_tokens (user_id, token, expires_at)
issueRefreshToken(userId, token, t) ==
  [user_id |-> userId, token |-> token, expires_at |-> t + REFRESH_LIFETIME_MS]

\* SELECT user_id, expires_at FROM refresh_tokens WHERE token = ? LIMIT 1
SelectToken_Any(rows, token) == rows

SelectToken(rows, token) == {r \in rows : r.token = token}

\* DELETE FROM refresh_tokens WHERE token = ?
DeleteToken_Noop(rows, token) == rows

DeleteToken_OfUser(rows, token) ==
  {r \in rows : \A x \in rows : x.token = token => x.user_id # r.user_id}

DeleteToken(rows, token) == {r \in rows : r.token # token}

\* new Date(row.expires_at).getTime() < Date.now()
Expired_Never(row, t) == FALSE

Expired(row, t) == row.expires_at < t

\* bcrypt.compare(password, hash)
\* ------------------------------------------------------------- requests
Idle ==
  [kind |-> "idle", pc |-> "idle",
   email |-> "", password |-> "", refreshToken |-> 0,
   header |-> NoHeader, user_id |-> 0, role |-> "",
   row |-> NoRow, user |-> NoUserRow, newToken |-> 0, reqUser |-> NoUser,
   status |-> 0, error |-> "", accessToken |-> NoToken, outRefresh |-> 0,
   outUser |-> NoOutUser]

\* slots are interchangeable: a new request takes the lowest free one
Free(r) ==
  /\ req[r].pc = "idle"
  /\ \A r2 \in Reqs : r2 < r => req[r2].pc # "idle"

Respond(r, st, err) ==
  [req EXCEPT ![r].pc = "done", ![r].status = st, ![r].error = err]

\* ------------------------------------------- the tab (unnamed/part_000)
\* authFetch calls of one tab
Calls == {1, 2}

\* a call of authFetch: its position, the request slot it awaits, the token
\* of options.headers.Authorization, the refresh token it read, the status it
\* returned, and how often it called fetch(url) and fetch(/auth/refresh)
NoCall ==
  [pc |-> "idle", slot |-> 0, auth |-> NoToken, refreshToken |-> 0,
   res |-> 0, error |-> "", sends |-> 0, refreshes |-> 0]

\* localStorage (accessToken, refreshToken, user), logoutTimer, the pending
\* logout timers of the page, the /auth/logout requests under way and the
\* login click under way
NoTab ==
  [accessToken |-> NoToken, refreshToken |-> 0, user |-> NoOutUser,
   logoutTimer |-> 0, timers |-> {}, outbox |-> {},
   login |-> [pc |-> "idle", slot |-> 0]]

Max(a, b) == IF a >= b THEN a ELSE b

\* payload.exp of the token, 0 for null
getTokenExpiryMs(token) ==
  IF token.raw = "jwt" /\ token.exp # 0 THEN token.exp ELSE 0

\* setTimeout returns a handle no pending timer has
FreshTimer(tb) ==
  CHOOSE i \in 1..(Cardinality(tb.timers) + 1) :
    \A x \in tb.timers : x.id # i

\* if (logoutTimer) { clearTimeout(logoutTimer); logoutTimer = null; }
clearLogoutTimer_Keep(tb) == tb

clearLogoutTimer(tb) ==
  IF tb.logoutTimer # 0
  THEN [tb EXCEPT !.timers = {x \in @ : x.id # tb.logoutTimer},
                  !.logoutTimer = 0]
  ELSE tb

scheduleLogoutOnExpiry_Never(tb, token, t) == clearLogoutTimer(tb)

scheduleLogoutOnExpiry(tb, token, t) ==
  LET c == clearLogoutTimer(tb)
      expMs == getTokenExpiryMs(token)
      id == FreshTimer(c)
  IN IF expMs = 0 THEN c
     ELSE [c EXCEPT !.logoutTimer = id,
                    !.timers = @ \cup {[id |-> id, due |-> t + Max(expMs - t, 0)]}]

\* logout(): cancel the timer, POST /auth/logout without awaiting it, empty
\* localStorage
logout_KeepSession(tb) == clearLogoutTimer(tb)

logout(tb) ==
  LET c == clearLogoutTimer(tb) IN
    [c EXCEPT !.outbox = IF c.refreshToken # 0 THEN @ \cup {c.refreshToken} ELSE @,
              !.accessToken = NoToken, !.refreshToken = 0, !.user = NoOutUser]

\* the tab when the server starts: the page was loaded with the player's
\* session in localStorage
InitTab ==
  LET token == signAccessToken(InitUsers[2], 0) IN
    scheduleLogoutOnExpiry(
      [NoTab EXCEPT !.accessToken = token, !.refreshToken = InitToken.token,
                    !.user = [id |-> 2, email |-> "b@x", role |-> "player"]],
      token, 0)

\* ------------------------------------------------- POST /api/dmgcalc
\* SQL NULL in a numeric column, undefined for a number of the handler
NULL == 0 - 1

\* a string of a request body: lead whitespace characters around core; str
\* is FALSE for a value that is missing or not a string
Absent == [str |-> FALSE, lead |-> 0, core |-> ""]
Text(core) == [str |-> TRUE, lead |-> 0, core |-> core]
Padded(core) == [str |-> TRUE, lead |-> 1, core |-> core]

NoStats ==
  [hp |-> NULL, attack |-> NULL, sp_atk |-> NULL, defence |-> NULL,
   sp_def |-> NULL, spd |-> NULL]

NoMove ==
  [code |-> NULL, power |-> NULL, type_name |-> "", category |-> ""]

NoDouble == [m |-> <<>>, e |-> 0]

NoDetails ==
  [base_damage |-> NULL, stab |-> NoDouble, type_multiplier |-> NoDouble]

\* no response of the damage calculator kept by its client
NoKept ==
  [has |-> FALSE, attacker |-> Absent, defender |-> Absent, move |-> Absent,
   attacker_level |-> [kind |-> "undefined", n |-> 0],
   status |-> 0, error |-> "", damage |-> NULL, details |-> NoDetails]

\* no damage calculation under way
NoCalc ==
  [pc |-> "idle", attacker |-> Absent, defender |-> Absent, move |-> Absent,
   attacker_level |-> [kind |-> "undefined", n |-> 0],
   level |-> NULL, attacker_trim |-> "", defender_trim |-> "", move_trim |-> "",
   attacker_sid |-> NULL, defender_sid |-> NULL,
   atkStats |-> NoStats, defStats |-> NoStats, mv |-> NoMove,
   defender_types |-> <<>>, type_multiplier |-> NoDouble,
   status |-> 0, error |-> "", damage |-> NULL, details |-> NoDetails]

\* ------------------------------------------------- the gym tracker
\* gyms: eight gyms of Kanto (ids 1..8) and the first two of Johto (9, 10)
gyms ==
  {[id |-> n, region |-> "Kanto", gym_number |-> n] : n \in 1..8}
  \cup {[id |-> 8 + n, region |-> "Johto", gym_number |-> n] : n \in 1..2}

\* CURDATE(): days are counted from the start of the server, day 1
CURDATE == now + 1

\* an end_date a client puts in a body
BodyDate == 5

\* user_gym_progress when the server starts: the player has completed the
\* first six gyms of Kanto and started the seventh
InitProgress ==
  {[user_id |-> 2, gym_id |-> n, start_date |-> 1, end_date |-> 1] : n \in 1..6}
  \cup {[user_id |-> 2, gym_id |-> 7, start_date |-> 1, end_date |-> NULL]}

\* requests of the gym tracker in flight at the same time
PReqs == {1, 2}

\* a request of the gym tracker: route, req.user, body, query results and
\* response; pc "open" is a handler that has returned without a response
NoPreq ==
  [pc |-> "idle", route |-> "", user |-> NoUser, gym_id |-> 0, user_id |-> 0,
   region |-> "", end_date |-> 0, gym |-> {}, status |-> 0, error |-> ""]

Init ==
  /\ users = InitUsers
  /\ admin = {1}
  /\ refresh_tokens = {InitToken}
  /\ now = 0
  /\ nextToken = 2
  /\ req = [r \in Reqs |-> Idle]
  /\ held = NoHeld
  /\ tab = InitTab
  /\ calls = [c \in Calls |-> NoCall]
  /\ calc = NoCalc
  /\ kept = NoKept
  /\ user_gym_progress = InitProgress
  /\ user_elite_four_progress = {}
  /\ preq = [r \in PReqs |-> NoPreq]

\* Date.now() advances
Tick ==
  /\ now < MaxTime
  /\ now' = now + 1
  /\ UNCHANGED <<users, admin, refresh_tokens, nextToken, req, held>>

\* database rejects the query the request is waiting for: catch -> 500
DbPcs == {"l_issue", "r_delete", "r_issue", "r_user", "a_update", "a_sync"}

\* bcrypt.compare(password, user.pass) of the hash of a password
bcryptCompare_Always(password, hash) == TRUE

bcryptCompare(password, hash) == hash = <<"bcrypt", password>>

\* login reaches its INSERT only after bcrypt.compare succeeded
DbError(r) ==
  /\ req[r].pc \in DbPcs
  /\ req[r].pc = "l_issue" => bcryptCompare(req[r].password, req[r].user.pass)
  /\ req' = [req EXCEPT ![r] =
       [Idle EXCEPT !.kind = req[r].kind, !.pc = "done",
                    !.email = req[r].email, !.password = req[r].password,
                    !.refreshToken = req[r].refreshToken,
                    !.header = req[r].header, !.user_id = req[r].user_id,
                    !.role = req[r].role, !.reqUser = req[r].reqUser,
                    !.status = 500, !.error = "Server error"]]
  /\ UNCHANGED <<users, admin, refresh_tokens, now, nextToken, held>>

\* the response has been delivered and the slot is free again
Finish(r) ==
  /\ req[r].pc = "done"
  /\ req' = [req EXCEPT ![r] = Idle]
  /\ UNCHANGED <<users, admin, refresh_tokens, now, nextToken, held>>

\* a client keeps the access token and the user of a 200 response of login or
\* refresh (localStorage.setItem('accessToken', ...), setItem('user', ...))
Keep(r) ==
  /\ req[r].pc = "done"
  /\ req[r].status = 200
  /\ req[r].kind \in {"login", "refresh"}
  /\ held' = [accessToken |-> req[r].accessToken, user |-> req[r].outUser]
  /\ UNCHANGED <<users, admin, refresh_tokens, now, nextToken, req>>

\* user: { id, name, email, role } of a response body
OutUser(user) == [id |-> user.id, email |-> user.email, role |-> user.role]

\* ------------------------------------------------- POST /auth/login
\* { email, password } bodies: every case of the handler, and the two that
\* authenticate
LoginBodies ==
  {<<"", "pwA">>, <<"a@x", "">>, <<"a@x", "pwA">>, <<"a@x", "pwB">>,
   <<"b@x", "pwB">>, <<"nobody@x", "pwA">>}

GoodLogins == {<<"a@x", "pwA">>, <<"b@x", "pwB">>}

LoginStart(r, bodies) ==
  /\ Free(r)
  /\ \E b \in bodies :
       LET e == b[1]
           p == b[2]
           base == [Idle EXCEPT !.kind = "login", !.email = e, !.password = p]
           found == {u \in UserIds : users[u].email = e}
       IN IF e = "" \/ p = ""
          THEN req' = [req EXCEPT ![r] =
                 [base EXCEPT !.pc = "done", !.status = 400,
                              !.error = "Email and password required"]]
          ELSE \/ req' = [req EXCEPT ![r] =
                      [base EXCEPT !.pc = "done", !.status = 500,
                                   !.error = "Server error"]]
               \/ /\ found = {}
                  /\ req' = [req EXCEPT ![r] =
                       [base EXCEPT !.pc = "done", !.status = 401,
                                    !.error = "Invalid credentials"]]
               \/ \E u \in found :
                    req' = [req EXCEPT ![r] =
                      [base EXCEPT !.pc = "l_issue", !.user = users[u]]]
  /\ UNCHANGED <<users, admin, refresh_tokens, now, nextToken, held>>

\* bcrypt.compare, signAccessToken, issueRefreshToken, res.json
LoginIssue(r) ==
  /\ req[r].pc = "l_issue"
  /\ LET user == req[r].user IN
       IF ~bcryptCompare(req[r].password, user.pass)
       THEN /\ req' = Respond(r, 401, "Invalid credentials")
            /\ UNCHANGED <<refresh_tokens, nextToken>>
       ELSE /\ nextToken <= MaxToken
            /\ refresh_tokens' = refresh_tokens \cup {issueRefreshToken(user.id, nextToken, now)}
            /\ nextToken' = nextToken + 1
            /\ req' = [req EXCEPT ![r].pc = "done", ![r].status = 200,
                                  ![r].accessToken = signAccessToken(user, now),
                                  ![r].outRefresh = nextToken,
                                  ![r].newToken = nextToken,
                                  ![r].outUser = OutUser(user)]
  /\ UNCHANGED <<users, admin, now, held>>

\* ------------------------------------------------- POST /auth/refresh
\* refresh tokens a client can put in a body: none, a string that was never
\* issued, or any token issued so far
BodyTokens == {0, Garbage} \cup (1..(nextToken - 1))

\* the refresh tokens issued so far
IssuedTokens == 1..(nextToken - 1)

RefreshStart(r, tokens) ==
  /\ Free(r)
  /\ \E t \in tokens :
       LET base == [Idle EXCEPT !.kind = "refresh", !.refreshToken = t]
           rows == SelectToken(refresh_tokens, t)
       IN IF t = 0
          THEN req' = [req EXCEPT ![r] =
                 [base EXCEPT !.pc = "done", !.status = 400,
                              !.error = "Refresh token required"]]
          ELSE \/ req' = [req EXCEPT ![r] =
                      [base EXCEPT !.pc = "done", !.status = 500,
                                   !.error = "Server error"]]
               \/ /\ rows = {}
                  /\ req' = [req EXCEPT ![r] =
                       [base EXCEPT !.pc = "done", !.status = 401,
                                    !.error = "Invalid or expired refresh token"]]
               \/ \E row \in rows :
                    req' = [req EXCEPT ![r] =
                      [base EXCEPT !.pc = "r_delete",
                                   !.row = [user_id |-> row.user_id,
                                            expires_at |-> row.expires_at]]]
  /\ UNCHANGED <<users, admin, refresh_tokens, now, nextToken, held>>

\* rotateRefreshToken: expiry test, then DELETE of the presented token
RotateDelete(r) ==
  /\ req[r].pc = "r_delete"
  /\ refresh_tokens' = DeleteToken(refresh_tokens, req[r].refreshToken)
  /\ IF Expired(req[r].row, now)
     THEN req' = Respond(r, 401, "Invalid or expired refresh token")
     ELSE req' = [req EXCEPT ![r].pc = "r_issue"]
  /\ UNCHANGED <<users, admin, now, nextToken, held>>

\* rotateRefreshToken: issueRefreshToken(row.user_id)
RotateIssue(r) ==
  /\ req[r].pc = "r_issue"
  /\ nextToken <= MaxToken
  /\ refresh_tokens' =
       refresh_tokens \cup {issueRefreshToken(req[r].row.user_id, nextToken, now)}
  /\ nextToken' = nextToken + 1
  /\ req' = [req EXCEPT ![r].pc = "r_user", ![r].newToken = nextToken]
  /\ UNCHANGED <<users, admin, now, held>>

\* SELECT ... FROM users WHERE id = rotated.userId, signAccessToken, res.json
RefreshUser(r) ==
  /\ req[r].pc = "r_user"
  /\ LET found == {u \in UserIds : users[u].id = req[r].row.user_id} IN
       IF found = {}
       THEN req' = Respond(r, 401, "User not found")
       ELSE \E u \in found :
              req' = [req EXCEPT ![r].pc = "done", ![r].status = 200,
                                 ![r].user = [users[u] EXCEPT !.pass = <<>>],
                                 ![r].accessToken = signAccessToken(users[u], now),
                                 ![r].outRefresh = req[r].newToken,
                                 ![r].outUser = OutUser(users[u])]
  /\ UNCHANGED <<users, admin, refresh_tokens, now, nextToken, held>>

\* ------------------------------------------------- POST /auth/logout
LogoutStatus_NotFound(rows, token) ==
  IF SelectToken(rows, token) = {} THEN 404 ELSE 200

LogoutStatus(rows, token) == 200

LogoutStart(r, tokens) ==
  /\ Free(r)
  /\ \E t \in tokens :
       LET base == [Idle EXCEPT !.kind = "logout", !.refreshToken = t] IN
         IF t = 0
         THEN /\ req' = [req EXCEPT ![r] =
                   [base EXCEPT !.pc = "done", !.status = 400,
                                !.error = "Refresh token required"]]
              /\ UNCHANGED refresh_tokens
         ELSE \/ /\ req' = [req EXCEPT ![r] =
                       [base EXCEPT !.pc = "done", !.status = 500,
                                    !.error = "Server error"]]
                 /\ UNCHANGED refresh_tokens
              \/ /\ refresh_tokens' = DeleteToken(refresh_tokens, t)
                 /\ req' = [req EXCEPT ![r] =
                       [base EXCEPT !.pc = "done",
                                    !.status = LogoutStatus(refresh_tokens, t)]]
  /\ UNCHANGED <<users, admin, now, nextToken, held>>

\* ------------------------------------------------- POST /api/admin/set-role
\* a token whose claims were edited after signing
Tamper(token) == [token EXCEPT !.role = "admin", !.exp = @ + 1]

\* a token signed with a secret that is not the server's
Forged ==
  [raw |-> "jwt", sub |-> 1, role |-> "admin", exp |-> MaxTime + 1,
   sig |-> Signature("guessed-secret", 1, "admin", MaxTime + 1)]

Bearer(token) == [scheme |-> "Bearer", rest |-> <<token>>]

\* Authorization headers a client can send
Headers ==
  {NoHeader, [scheme |-> "Bearer", rest |-> <<>>], Bearer(NoToken),
   Bearer(Malformed), Bearer(Forged)}
  \cup (IF held = NoHeld THEN {}
        ELSE {Bearer(held.accessToken), Bearer(Tamper(held.accessToken))})

\* { user_id, role } bodies
SetRoleBodies == {<<0, "admin">>, <<1, "owner">>, <<1, "player">>, <<2, "admin">>}

\* authMiddleware, requireRole('admin') and the handler up to its first await
AdminStart(r) ==
  /\ Free(r)
  /\ \E h \in Headers, b \in SetRoleBodies :
       LET uid == b[1]
           ro == b[2]
           base == [Idle EXCEPT !.kind = "set-role", !.header = h]
           auth == authMiddleware(h, now)
           user == IF auth = 0 THEN authMiddlewareUser(HeaderToken(h)) ELSE NoUser
           gate == IF auth = 0 THEN requireRole("admin", user) ELSE auth
       IN req' = [req EXCEPT ![r] =
            IF auth # 0
            THEN [base EXCEPT !.pc = "done", !.status = auth, !.error = "Unauthorized"]
            ELSE IF gate # 0
            THEN [base EXCEPT !.pc = "done", !.status = gate, !.error = "Forbidden",
                              !.reqUser = user]
            ELSE IF uid = 0 \/ ro \notin Roles
            THEN [base EXCEPT !.pc = "done", !.status = 400, !.error = "Invalid input",
                              !.reqUser = user, !.user_id = uid, !.role = ro]
            ELSE [base EXCEPT !.pc = "a_update", !.reqUser = user,
                              !.user_id = uid, !.role = ro]]
  /\ UNCHANGED <<users, admin, refresh_tokens, now, nextToken, held>>

\* UPDATE users SET role = ? WHERE id = ?
AdminUpdate(r) ==
  /\ req[r].pc = "a_update"
  /\ users' = [u \in UserIds |->
        IF users[u].id = req[r].user_id THEN [users[u] EXCEPT !.role = req[r].role]
        ELSE users[u]]
  /\ req' = [req EXCEPT ![r].pc = "a_sync"]
  /\ UNCHANGED <<admin, refresh_tokens, now, nextToken, held>>

\* INSERT IGNORE INTO admin / DELETE FROM admin, res.json
AdminSync(r) ==
  /\ req[r].pc = "a_sync"
  /\ admin' = IF req[r].role = "admin" THEN admin \cup {req[r].user_id}
              ELSE admin \ {req[r].user_id}
  /\ req' = Respond(r, 200, "")
  /\ UNCHANGED <<users, refresh_tokens, now, nextToken, held>>

\* the session routes, requests in flight concurrently; clients log in with
\* their credentials and present tokens the server issued
Next ==
  \/ Tick /\ UNCHANGED <<tab, calls, calc, kept, gymVars>>
  \/ \E r \in Reqs : DbError(r) /\ UNCHANGED <<tab, calls, calc, kept, gymVars>>
  \/ \E r \in Reqs : Finish(r) /\ UNCHANGED <<tab, calls, calc, kept, gymVars>>
  \/ \E r \in Reqs : LoginStart(r, GoodLogins) /\ UNCHANGED <<tab, calls, calc, kept, gymVars>>
  \/ \E r \in Reqs : LoginIssue(r) /\ UNCHANGED <<tab, calls, calc, kept, gymVars>>
  \/ \E r \in Reqs : RefreshStart(r, IssuedTokens) /\ UNCHANGED <<tab, calls, calc, kept, gymVars>>
  \/ \E r \in Reqs : RotateDelete(r) /\ UNCHANGED <<tab, calls, calc, kept, gymVars>>
  \/ \E r \in Reqs : RotateIssue(r) /\ UNCHANGED <<tab, calls, calc, kept, gymVars>>
  \/ \E r \in Reqs : RefreshUser(r) /\ UNCHANGED <<tab, calls, calc, kept, gymVars>>
  \/ \E r \in Reqs : LogoutStart(r, IssuedTokens) /\ UNCHANGED <<tab, calls, calc, kept, gymVars>>

Spec == Init /\ [][Next]_vars

\* every route, one request at a time, with every kind of body and header:
\* the session routes and the admin route behind authMiddleware + requireRole
NextGate ==
  \/ Tick /\ UNCHANGED <<tab, calls, calc, kept, gymVars>>
  \/ \E r \in GateReqs : DbError(r) /\ UNCHANGED <<tab, calls, calc, kept, gymVars>>
  \/ \E r \in GateReqs : Finish(r) /\ UNCHANGED <<tab, calls, calc, kept, gymVars>>
  \/ \E r \in GateReqs : Keep(r) /\ UNCHANGED <<tab, calls, calc, kept, gymVars>>
  \/ \E r \in GateReqs : LoginStart(r, LoginBodies) /\ UNCHANGED <<tab, calls, calc, kept, gymVars>>
  \/ \E r \in GateReqs : LoginIssue(r) /\ UNCHANGED <<tab, calls, calc, kept, gymVars>>
  \/ \E r \in GateReqs : RefreshStart(r, BodyTokens) /\ UNCHANGED <<tab, calls, calc, kept, gymVars>>
  \/ \E r \in GateReqs : RotateDelete(r) /\ UNCHANGED <<tab, calls, calc, kept, gymVars>>
  \/ \E r \in GateReqs : RotateIssue(r) /\ UNCHANGED <<tab, calls, calc, kept, gymVars>>
  \/ \E r \in GateReqs : RefreshUser(r) /\ UNCHANGED <<tab, calls, calc, kept, gymVars>>
  \/ \E r \in GateReqs : LogoutStart(r, BodyTokens) /\ UNCHANGED <<tab, calls, calc, kept, gymVars>>
  \/ \E r \in GateReqs : AdminStart(r) /\ UNCHANGED <<tab, calls, calc, kept, gymVars>>
  \/ \E r \in GateReqs : AdminUpdate(r) /\ UNCHANGED <<tab, calls, calc, kept, gymVars>>
  \/ \E r \in GateReqs : AdminSync(r) /\ UNCHANGED <<tab, calls, calc, kept, gymVars>>

SpecGate == Init /\ [][NextGate]_vars

\* ======================================================= refresh tokens
\* the rows of storage that carry token t
RowsOf(t) == {x \in refresh_tokens : x.token = t}

RefreshDone(r, st) ==
  /\ req[r].kind = "refresh"
  /\ req[r].pc = "done"
  /\ req[r].status = st

\* C1: rotation is single-use. When a rotation of token t has completed with
\* success, a later rotation of the same t finds no row: it answers 401, issues
\* nothing and leaves storage as it is.
C1_SecondRotationInvalid ==
  [][\A r1, r2 \in Reqs :
       (/\ r1 # r2
        /\ RefreshDone(r1, 200)
        /\ req[r2].pc = "idle"
        /\ req'[r2].kind = "refresh"
        /\ req'[r2].refreshToken = req[r1].refreshToken
        /\ req'[r2].status # 500)
       => /\ req'[r2].pc = "done"
          /\ req'[r2].status = 401
          /\ req'[r2].newToken = 0
          /\ refresh_tokens' = refresh_tokens
          /\ nextToken' = nextToken]_vars

\* the first rotation of t answered 200 with a successor, the second 401
C1_Witness ==
  \E r1, r2 \in Reqs :
    /\ r1 # r2
    /\ RefreshDone(r1, 200)
    /\ req[r1].outRefresh # 0
    /\ RefreshDone(r2, 401)
    /\ req[r2].refreshToken = req[r1].refreshToken

\* C2: of two concurrent refresh requests presenting the same token at most
\* one succeeds; a presented token never has two live successor tokens.
C2_AtMostOneSuccessor ==
  \A r1, r2 \in Reqs :
    (/\ r1 # r2
     /\ req[r1].kind = "refresh"
     /\ req[r2].kind = "refresh"
     /\ req[r1].refreshToken = req[r2].refreshToken)
    => /\ ~(req[r1].status = 200 /\ req[r2].status = 200)
       /\ ~(/\ req[r1].newToken # 0 /\ RowsOf(req[r1].newToken) # {}
            /\ req[r2].newToken # 0 /\ RowsOf(req[r2].newToken) # {})

\* C3: a rotation that finds its row expired answers 401 (Invalid), issues no
\* token and deletes the row; the token stays absent afterwards.
C3_ExpiredIsInvalid ==
  /\ [][\A r \in Reqs :
          (/\ req[r].pc = "r_delete"
           /\ req[r].row.expires_at < now
           /\ req'[r] # req[r])
          => /\ req'[r].pc = "done"
             /\ req'[r].status \in {401, 500}
             /\ req'[r].newToken = 0
             /\ nextToken' = nextToken
             /\ refresh_tokens' \subseteq refresh_tokens
             /\ req'[r].status = 401 =>
                  {x \in refresh_tokens' : x.token = req[r].refreshToken} = {}]_vars
  /\ [](\A r \in Reqs :
          (RefreshDone(r, 401) /\ req[r].row # NoRow)
          => /\ RowsOf(req[r].refreshToken) = {}
             /\ req[r].newToken = 0)

\* a stored, expired token was presented and refused
C3_Witness ==
  \E r \in Reqs :
    /\ RefreshDone(r, 401)
    /\ req[r].row # NoRow
    /\ req[r].row.expires_at < now
    /\ RowsOf(req[r].refreshToken) = {}

\* C4: a successful rotation of token t owned by user u removes the row of t
\* and inserts exactly one new row, owned by u; the user of the response and
\* the subject of the new access token are u.
C4_RotationKeepsOwner ==
  /\ [](\A r \in Reqs :
          req[r].kind = "refresh" =>
            /\ req[r].pc = "r_delete" =>
                 \A x \in RowsOf(req[r].refreshToken) : x.user_id = req[r].row.user_id
            /\ req[r].newToken # 0 =>
                 \A x \in RowsOf(req[r].newToken) : x.user_id = req[r].row.user_id
            /\ RefreshDone(r, 200) =>
                 /\ RowsOf(req[r].refreshToken) = {}
                 /\ req[r].outRefresh = req[r].newToken
                 /\ req[r].outUser.id = req[r].row.user_id
                 /\ req[r].accessToken.sub = req[r].row.user_id)
  /\ [][\A r \in Reqs :
          (req[r].pc = "r_issue" /\ req'[r].pc = "r_user")
          => /\ refresh_tokens \subseteq refresh_tokens'
             /\ Cardinality(refresh_tokens' \ refresh_tokens) = 1
             /\ \A x \in refresh_tokens' \ refresh_tokens :
                  /\ x.user_id = req[r].row.user_id
                  /\ x.token = req'[r].newToken
                  /\ x.token # req[r].refreshToken]_vars

\* user 2 rotated a token while user 1 also holds a session
C4_Witness ==
  \E r \in Reqs :
    /\ RefreshDone(r, 200)
    /\ req[r].row.user_id = 2
    /\ req[r].outUser.id = 2
    /\ \E x \in RowsOf(req[r].newToken) : x.user_id = 2
    /\ \E x \in refresh_tokens : x.user_id = 1

\* C5: within one rotation the presented row is deleted before the successor
\* is inserted: the two are never stored together, and a rotation that stops
\* or fails between the delete and the insert leaves the presented token dead
\* and no successor.
C5_DeleteBeforeInsert ==
  /\ [](\A r \in Reqs :
          req[r].kind = "refresh" =>
            /\ req[r].pc \in {"r_issue", "r_user"} => RowsOf(req[r].refreshToken) = {}
            /\ (req[r].newToken # 0 /\ RowsOf(req[r].newToken) # {})
                 => RowsOf(req[r].refreshToken) = {})
  /\ [][\A r \in Reqs :
          (req[r].pc = "r_issue" /\ req'[r].pc = "done")
          => /\ req'[r].status = 500
             /\ req'[r].newToken = 0
             /\ req'[r].outRefresh = 0
             /\ {x \in refresh_tokens' : x.token = req[r].refreshToken} = {}
             /\ refresh_tokens' = refresh_tokens
             /\ nextToken' = nextToken]_vars

\* a rotation is between its delete and its insert: the presented token is
\* gone, nothing replaces it yet and its owner has no row left
C5_Witness ==
  \E r \in Reqs :
    /\ req[r].kind = "refresh"
    /\ req[r].pc = "r_issue"
    /\ req[r].newToken = 0
    /\ \A x \in refresh_tokens : x.user_id # req[r].row.user_id

\* C6: revocation is idempotent. Logout with a non-empty token answers 200
\* whether or not a row matches, the token is absent afterwards, and a
\* repeated logout answers the same and changes nothing.
C6_LogoutIdempotent ==
  /\ [](\A r \in Reqs :
          (req[r].kind = "logout" /\ req[r].pc = "done" /\ req[r].status # 500)
          => IF req[r].refreshToken = 0
             THEN req[r].status = 400
             ELSE /\ req[r].status = 200
                  /\ req[r].error = ""
                  /\ RowsOf(req[r].refreshToken) = {})
  /\ [][\A r \in Reqs :
          (/\ req[r].pc = "idle"
           /\ req'[r].kind = "logout"
           /\ req'[r].refreshToken # 0
           /\ req'[r].status # 500)
          => /\ req'[r].status = 200
             /\ refresh_tokens' =
                  {x \in refresh_tokens : x.token # req'[r].refreshToken}
             /\ RowsOf(req'[r].refreshToken) = {} => refresh_tokens' = refresh_tokens]_vars

\* an issued token was revoked twice, both answers 200
C6_Witness ==
  \E r1, r2 \in Reqs :
    /\ r1 # r2
    /\ req[r1].kind = "logout" /\ req[r1].pc = "done" /\ req[r1].status = 200
    /\ req[r2].kind = "logout" /\ req[r2].pc = "done" /\ req[r2].status = 200
    /\ req[r1].refreshToken = req[r2].refreshToken
    /\ req[r1].refreshToken >= 1

\* ================================================= authMiddleware gate
\* a well-formed token signed with the server's secret and not expired at t
ValidAt(token, t) ==
  /\ token.raw = "jwt"
  /\ token.sig = <<ACCESS_SECRET, token.sub, token.role, token.exp>>
  /\ t < token.exp

\* the token part of the header a request arrived with
Presented(r) ==
  IF req[r].header.rest = <<>> THEN NoToken ELSE req[r].header.rest[1]

\* request r arrives at the admin route in this step
Arrives(r) == req[r].pc = "idle" /\ req'[r].kind = "set-role"

\* the route handler of request r has run (it validated the body)
HandlerRan(r) ==
  /\ req[r].kind = "set-role"
  /\ \/ req[r].pc \in {"a_update", "a_sync"}
     \/ req[r].pc = "done" /\ req[r].status \in {200, 400, 500}

\* C7: the access token of a successful login (or refresh), verified before
\* its expiry, gives req.user exactly the id and the role of the user record
\* of that response.
C7_IssueThenVerify ==
  [][\A r \in GateReqs :
       (/\ Arrives(r)
        /\ held # NoHeld
        /\ req'[r].header = [scheme |-> "Bearer", rest |-> <<held.accessToken>>]
        /\ now < held.accessToken.exp)
       => /\ req'[r].status # 401
          /\ req'[r].reqUser = [id |-> held.user.id, role |-> held.user.role]]_vars

\* the token of the player's login was verified: req.user is the player
C7_Witness ==
  \E r \in GateReqs :
    /\ req[r].kind = "set-role"
    /\ held.user = [id |-> 2, email |-> "b@x", role |-> "player"]
    /\ Presented(r) = held.accessToken
    /\ req[r].reqUser = [id |-> 2, role |-> "player"]

\* C8: verification fails closed. Without a header, without a token part, with
\* a malformed token, a bad signature or an expired token the answer is 401
\* {error:'Unauthorized'}, req.user stays unset and the handler does not run.
C8_FailsClosed ==
  /\ [][\A r \in GateReqs :
          (Arrives(r) /\ ~ValidAt(Presented(r)', now))
          => /\ req'[r].pc = "done"
             /\ req'[r].status = 401
             /\ req'[r].error = "Unauthorized"
             /\ req'[r].reqUser = NoUser
             /\ users' = users /\ admin' = admin]_vars
  /\ [](\A r \in GateReqs :
          /\ (req[r].kind = "set-role" /\ req[r].status = 401)
               => /\ req[r].pc = "done"
                  /\ req[r].error = "Unauthorized"
                  /\ req[r].reqUser = NoUser
          /\ HandlerRan(r) => req[r].reqUser # NoUser)

\* a correctly signed token was refused because it had expired
C8_Witness ==
  \E r \in GateReqs :
    /\ req[r].kind = "set-role"
    /\ req[r].status = 401
    /\ Presented(r) = held.accessToken
    /\ held # NoHeld
    /\ Presented(r).exp <= now

\* C9: on the admin route a missing or invalid token gives 401, a valid token
\* whose role is not admin gives 403, and the handler runs only for a valid
\* token whose role is admin.
C9_AdminGate ==
  /\ [][\A r \in GateReqs :
          Arrives(r) =>
            LET token == Presented(r)' IN
              /\ ~ValidAt(token, now) => req'[r].status = 401
              /\ (ValidAt(token, now) /\ token.role # "admin")
                   => /\ req'[r].pc = "done"
                      /\ req'[r].status = 403
                      /\ req'[r].error = "Forbidden"
              /\ (ValidAt(token, now) /\ token.role = "admin")
                   => req'[r].status \notin {401, 403}]_vars
  /\ [](\A r \in GateReqs :
          HandlerRan(r) =>
            /\ Presented(r).raw = "jwt"
            /\ Presented(r).sig = <<ACCESS_SECRET, Presented(r).sub,
                                    Presented(r).role, Presented(r).exp>>
            /\ Presented(r).role = "admin")

\* a valid player token was answered 403
C9_Witness ==
  \E r \in GateReqs :
    /\ req[r].kind = "set-role"
    /\ req[r].status = 403
    /\ req[r].reqUser.role = "player"
    /\ Presented(r) = held.accessToken

\* C10: the outcome of authMiddleware is a function of the token's signature
\* and expiry alone: whatever logout, rotation and set-role did to storage, a
\* correctly signed unexpired token is accepted with the id and role it
\* carries, and nothing else is accepted.
C10_StorageIndependent ==
  [][\A r \in GateReqs :
       Arrives(r) =>
         LET token == Presented(r)' IN
           IF ValidAt(token, now)
           THEN /\ req'[r].status # 401
                /\ req'[r].reqUser = [id |-> token.sub, role |-> token.role]
           ELSE /\ req'[r].status = 401
                /\ req'[r].reqUser = NoUser]_vars

\* an admin token is still accepted as admin after its user was demoted and
\* every refresh token of that user was deleted
C10_Witness ==
  \E r \in GateReqs :
    /\ req[r].kind = "set-role"
    /\ req[r].pc = "a_update"
    /\ req[r].reqUser = [id |-> 1, role |-> "admin"]
    /\ users[1].role = "player"
    /\ nextToken > 1
    /\ \A x \in refresh_tokens : x.user_id # 1

\* ================================================= POST /auth/login, failures
\* what a client sees of a response
ResponseOf(r) ==
  [status |-> req[r].status, error |-> req[r].error,
   accessToken |-> req[r].accessToken, refreshToken |-> req[r].outRefresh,
   user |-> req[r].outUser]

\* 401 { error: 'Invalid credentials' }
InvalidCredentials ==
  [status |-> 401, error |-> "Invalid credentials", accessToken |-> NoToken,
   refreshToken |-> 0, user |-> NoOutUser]

\* request r is a login whose email has no user row
UnknownEmail(r) ==
  /\ req[r].kind = "login"
  /\ req[r].email # "" /\ req[r].password # ""
  /\ \A u \in UserIds : users[u].email # req[r].email

\* request r is a login with an existing email and another password
WrongPassword(r) ==
  /\ req[r].kind = "login"
  /\ req[r].email # "" /\ req[r].password # ""
  /\ \E u \in UserIds : users[u].email = req[r].email
  /\ \A u \in UserIds :
       users[u].email = req[r].email => users[u].pass # <<"bcrypt", req[r].password>>

\* C11: a login with an unknown email and a login with an existing email and
\* a wrong password get the same response, 401 { error: 'Invalid
\* credentials' } with no token and no user in it (a failing SELECT answers
\* 500 in both cases), and no step of either request adds a refresh-token row.
C11_NoEnumeration ==
  /\ [](\A r \in GateReqs :
          ((UnknownEmail(r) \/ WrongPassword(r)) /\ req[r].pc = "done")
            => \/ ResponseOf(r) = InvalidCredentials
               \/ ResponseOf(r) = [InvalidCredentials EXCEPT
                                     !.status = 500, !.error = "Server error"])
  /\ [][\A r \in GateReqs :
          (UnknownEmail(r)' \/ WrongPassword(r)')
            => /\ refresh_tokens' = refresh_tokens
               /\ nextToken' = nextToken]_vars

\* a login with the admin's email and the player's password was answered 401
\* after the user row was found
C11_Witness ==
  \E r \in GateReqs :
    /\ WrongPassword(r)
    /\ req[r].pc = "done"
    /\ req[r].user # NoUserRow
    /\ ResponseOf(r) = InvalidCredentials

\* =========================================================== the tab
\* GET /api/favorite behind authMiddleware; the handler only reads
FavoriteStart(r, headers) ==
  /\ Free(r)
  /\ \E h \in headers :
       LET base == [Idle EXCEPT !.kind = "favorite", !.header = h]
           auth == authMiddleware(h, now)
       IN \/ /\ auth # 0
             /\ req' = [req EXCEPT ![r] =
                  [base EXCEPT !.pc = "done", !.status = auth,
                               !.error = "Unauthorized"]]
          \/ /\ auth = 0
             /\ \E st \in {200, 500} :
                  req' = [req EXCEPT ![r] =
                    [base EXCEPT !.pc = "done", !.status = st,
                                 !.reqUser = authMiddlewareUser(HeaderToken(h))]]
  /\ UNCHANGED <<users, admin, refresh_tokens, now, nextToken, held>>

\* `Bearer ${accessToken}`: a missing item reads as the string "null"
AuthHeader(token) == Bearer(IF token = NoToken THEN Malformed ELSE token)

\* some call of authFetch or the login click awaits the response of slot r
Awaited(r) ==
  \/ tab.login.pc = "wait" /\ tab.login.slot = r
  \/ \E c \in Calls : calls[c].pc \in {"wait1", "waitR", "wait2"} /\ calls[c].slot = r

\* the response of slot r is read by the code that awaited it
Release(r) == [req EXCEPT ![r] = Idle]

\* a response nobody awaits (logout's fetch, a call the page dropped)
Drop(r) ==
  /\ ~Awaited(r)
  /\ Finish(r)
  /\ UNCHANGED <<tab, calls, calc, kept, gymVars>>

\* Date.now() advances; a timer that is due runs before the clock moves on
ClientTick ==
  /\ \A x \in tab.timers : now < x.due
  /\ Tick
  /\ UNCHANGED <<tab, calls, calc, kept, gymVars>>

\* the callback of setTimeout(() => logout(), delay)
TimerFire ==
  /\ \E x \in tab.timers :
       /\ x.due <= now
       /\ tab' = logout([tab EXCEPT !.timers = @ \ {x}])
  /\ UNCHANGED <<users, admin, refresh_tokens, now, nextToken, req, held, calls, calc, kept, gymVars>>

\* the fetch of logout() reaches the server
LogoutArrive(r) ==
  /\ \E t \in tab.outbox :
       /\ LogoutStart(r, {t})
       /\ tab' = [tab EXCEPT !.outbox = @ \ {t}]
  /\ UNCHANGED <<calls, calc, kept, gymVars>>

\* the page is loaded again (navigation, reload): timers and calls of the old
\* page are gone, the watcher at the end of the script arms the timer
PageLoad ==
  /\ LET fresh == [tab EXCEPT !.logoutTimer = 0, !.timers = {},
                              !.login = [pc |-> "idle", slot |-> 0]]
     IN tab' = IF fresh.accessToken # NoToken
               THEN scheduleLogoutOnExpiry(fresh, fresh.accessToken, now)
               ELSE fresh
  /\ calls' = [c \in Calls |-> NoCall]
  /\ UNCHANGED <<users, admin, refresh_tokens, now, nextToken, req, held, calc, kept, gymVars>>

\* credentials typed into the login form: the player's (a login that fails
\* reaches the handler as the 500 of a rejected query)
ClientLogins == {<<"b@x", "pwB">>}

\* click on loginBtn: fetch(/auth/login)
LoginClick(r) ==
  /\ tab.login.pc = "idle"
  /\ LoginStart(r, ClientLogins)
  /\ tab' = [tab EXCEPT !.login = [pc |-> "wait", slot |-> r]]
  /\ UNCHANGED <<calls, calc, kept, gymVars>>

\* the login handler after its await: store the session, arm the timer
LoginResponse ==
  /\ tab.login.pc = "wait"
  /\ LET r == tab.login.slot
         done == [tab EXCEPT !.login = [pc |-> "idle", slot |-> 0]]
     IN /\ req[r].pc = "done"
        /\ req' = Release(r)
        /\ tab' = IF req[r].status = 200
                  THEN scheduleLogoutOnExpiry(
                         [done EXCEPT !.accessToken = req[r].accessToken,
                                      !.refreshToken = req[r].outRefresh,
                                      !.user = req[r].outUser],
                         req[r].accessToken, now)
                  ELSE done
  /\ UNCHANGED <<users, admin, refresh_tokens, now, nextToken, held, calls, calc, kept, gymVars>>

\* ------------------------------------------------------------ authFetch
\* authFetch(url): read accessToken, set the header, fetch(url)
AuthFetchCall(c, r) ==
  /\ calls[c].pc = "idle"
  /\ FavoriteStart(r, {AuthHeader(tab.accessToken)})
  /\ calls' = [calls EXCEPT ![c] =
       [NoCall EXCEPT !.pc = "wait1", !.slot = r,
                      !.auth = HeaderToken(AuthHeader(tab.accessToken)),
                      !.sends = 1]]
  /\ UNCHANGED <<tab, calc, kept, gymVars>>

\* after the first await: return the response, or on a 401 read refreshToken
\* and either log out or fetch(/auth/refresh)
AuthFetchFirst(c) ==
  /\ calls[c].pc = "wait1"
  /\ LET r == calls[c].slot IN
       /\ req[r].pc = "done"
       /\ req' = Release(r)
       /\ IF req[r].status # 401
          THEN /\ calls' = [calls EXCEPT ![c].pc = "returned", ![c].slot = 0,
                                         ![c].auth = NoToken, ![c].refreshToken = 0,
                                         ![c].res = req[r].status]
               /\ UNCHANGED tab
          ELSE IF tab.refreshToken = 0
          THEN /\ tab' = logout(tab)
               /\ calls' = [calls EXCEPT ![c].pc = "thrown", ![c].slot = 0,
                                         ![c].auth = NoToken, ![c].refreshToken = 0,
                                         ![c].error = "Session expired"]
          ELSE /\ calls' = [calls EXCEPT ![c].pc = "sendR", ![c].slot = 0,
                                         ![c].refreshToken = tab.refreshToken,
                                         ![c].refreshes = @ + 1]
               /\ UNCHANGED tab
  /\ UNCHANGED <<users, admin, refresh_tokens, now, nextToken, held, calc, kept, gymVars>>

\* the fetch of /auth/refresh reaches the server
AuthFetchRefresh(c, r) ==
  /\ calls[c].pc = "sendR"
  /\ RefreshStart(r, {calls[c].refreshToken})
  /\ calls' = [calls EXCEPT ![c].pc = "waitR", ![c].slot = r]
  /\ UNCHANGED <<tab, calc, kept, gymVars>>

\* after the await of /auth/refresh: log out, or store the new pair, arm the
\* timer, set the header and fetch(url) again
AuthFetchRefreshed(c) ==
  /\ calls[c].pc = "waitR"
  /\ LET r == calls[c].slot IN
       /\ req[r].pc = "done"
       /\ req' = Release(r)
       /\ IF req[r].status # 200
          THEN /\ tab' = logout(tab)
               /\ calls' = [calls EXCEPT ![c].pc = "thrown", ![c].slot = 0,
                                         ![c].auth = NoToken, ![c].refreshToken = 0,
                                         ![c].error = "Session expired"]
          ELSE /\ tab' = scheduleLogoutOnExpiry(
                           [tab EXCEPT !.accessToken = req[r].accessToken,
                                       !.refreshToken = req[r].outRefresh],
                           req[r].accessToken, now)
               /\ calls' = [calls EXCEPT ![c].pc = "send2", ![c].slot = 0,
                                         ![c].auth = req[r].accessToken,
                                         ![c].sends = @ + 1]
  /\ UNCHANGED <<users, admin, refresh_tokens, now, nextToken, held, calc, kept, gymVars>>

\* the second fetch(url) reaches the server
AuthFetchRetry(c, r) ==
  /\ calls[c].pc = "send2"
  /\ FavoriteStart(r, {Bearer(calls[c].auth)})
  /\ calls' = [calls EXCEPT ![c].pc = "wait2", ![c].slot = r]
  /\ UNCHANGED <<tab, calc, kept, gymVars>>

\* after the await of the retry: a 401 logs out and throws
AuthFetchSecond_Return(c) ==
  /\ calls[c].pc = "wait2"
  /\ req[calls[c].slot].pc = "done"
  /\ req' = Release(calls[c].slot)
  /\ calls' = [calls EXCEPT ![c].pc = "returned", ![c].slot = 0,
                            ![c].auth = NoToken, ![c].refreshToken = 0,
                            ![c].res = req[calls[c].slot].status]
  /\ UNCHANGED <<users, admin, refresh_tokens, now, nextToken, held, tab, calc, kept, gymVars>>

AuthFetchSecond(c) ==
  /\ calls[c].pc = "wait2"
  /\ LET r == calls[c].slot IN
       /\ req[r].pc = "done"
       /\ req' = Release(r)
       /\ IF req[r].status = 401
          THEN /\ tab' = logout(tab)
               /\ calls' = [calls EXCEPT ![c].pc = "thrown", ![c].slot = 0,
                                         ![c].auth = NoToken, ![c].refreshToken = 0,
                                         ![c].error = "Session expired"]
          ELSE /\ calls' = [calls EXCEPT ![c].pc = "returned", ![c].slot = 0,
                                         ![c].auth = NoToken, ![c].refreshToken = 0,
                                         ![c].res = req[r].status]
               /\ UNCHANGED tab
  /\ UNCHANGED <<users, admin, refresh_tokens, now, nextToken, held, calc, kept, gymVars>>

\* a fetch of the call rejects: authFetch throws what fetch threw
NetworkError(c) ==
  /\ calls[c].pc \in {"wait1", "sendR", "waitR", "send2", "wait2"}
  /\ calls' = [calls EXCEPT ![c].pc = "thrown", ![c].slot = 0,
                            ![c].auth = NoToken, ![c].refreshToken = 0,
                            ![c].error = "Failed to fetch"]
  /\ UNCHANGED <<users, admin, refresh_tokens, now, nextToken, req, held, tab, calc, kept, gymVars>>

\* the caller has the result of the call
AuthFetchDone(c) ==
  /\ calls[c].pc \in {"returned", "thrown"}
  /\ calls' = [calls EXCEPT ![c] = NoCall]
  /\ UNCHANGED <<users, admin, refresh_tokens, now, nextToken, req, held, tab, calc, kept, gymVars>>

\* one call of authFetch at a time
OneCall == {1}

\* the server's queries of the requests the tab sent
ServerStep(r) ==
  \/ DbError(r)
  \/ LoginIssue(r)
  \/ RotateDelete(r)
  \/ RotateIssue(r)
  \/ RefreshUser(r)

\* the server takes the requests of the tab one at a time
TabReqs == {1}

\* one tab and the server
NextClient ==
  \/ ClientTick
  \/ TimerFire
  \/ PageLoad
  \/ LoginResponse
  \/ \E r \in TabReqs : LoginClick(r)
  \/ \E r \in TabReqs : LogoutArrive(r)
  \/ \E r \in TabReqs : Drop(r)
  \/ \E r \in TabReqs : ServerStep(r) /\ UNCHANGED <<tab, calls, calc, kept, gymVars>>
  \/ \E c \in OneCall, r \in TabReqs : AuthFetchCall(c, r)
  \/ \E c \in OneCall : AuthFetchFirst(c)
  \/ \E c \in OneCall, r \in TabReqs : AuthFetchRefresh(c, r)
  \/ \E c \in OneCall : AuthFetchRefreshed(c)
  \/ \E c \in OneCall, r \in TabReqs : AuthFetchRetry(c, r)
  \/ \E c \in OneCall : AuthFetchSecond(c)
  \/ \E c \in OneCall : NetworkError(c)
  \/ \E c \in OneCall : AuthFetchDone(c)

SpecClient == Init /\ [][NextClient]_vars

\* every request reaches the server, every query completes and every await
\* resumes
SpecClientFair ==
  /\ SpecClient
  /\ \A r \in TabReqs :
       /\ WF_vars(ServerStep(r) /\ UNCHANGED <<tab, calls, calc, kept, gymVars>>)
       /\ WF_vars(Drop(r))
       /\ \A c \in OneCall :
            /\ SF_vars(AuthFetchRefresh(c, r))
            /\ SF_vars(AuthFetchRetry(c, r))
  /\ WF_vars(LoginResponse)
  /\ \A c \in OneCall :
       /\ WF_vars(AuthFetchFirst(c))
       /\ WF_vars(AuthFetchRefreshed(c))
       /\ WF_vars(AuthFetchSecond(c))

\* ================================================= authFetch, logout timer
\* localStorage holds no session
LoggedOut(tb) ==
  /\ tb.accessToken = NoToken
  /\ tb.refreshToken = 0
  /\ tb.user = NoOutUser
  /\ tb.logoutTimer = 0

\* call c reads, in this step, the response it awaited
Reads(c) ==
  /\ calls[c].pc \in {"wait1", "waitR", "wait2"}
  /\ req[calls[c].slot].pc = "done"
  /\ req'[calls[c].slot].pc = "idle"

\* C12: one call of authFetch sends the original request at most twice and
\* calls /auth/refresh at most once, and only after a 401 on the first
\* attempt; the retry carries the access token /auth/refresh just issued; a
\* 401 on the retry logs out and throws; a 401 is never returned; and the call
\* always ends.
C12_RetryCappedAtOne ==
  /\ [](\A c \in OneCall :
          /\ calls[c].sends <= 2
          /\ calls[c].refreshes <= 1
          /\ calls[c].sends = 2 => calls[c].refreshes = 1
          /\ calls[c].pc = "returned" => calls[c].res # 401)
  /\ [][\A c \in OneCall :
          /\ (calls'[c].refreshes > calls[c].refreshes)
               => /\ calls[c].pc = "wait1"
                  /\ req[calls[c].slot].kind = "favorite"
                  /\ req[calls[c].slot].status = 401
          /\ (calls'[c].sends > calls[c].sends /\ calls[c].pc # "idle")
               => /\ calls[c].pc = "waitR"
                  /\ req[calls[c].slot].status = 200
                  /\ calls'[c].auth = req[calls[c].slot].accessToken
                  /\ tab'.accessToken = calls'[c].auth
          /\ (calls[c].pc = "send2" /\ calls'[c].pc = "wait2")
               => req'[calls'[c].slot].header = Bearer(calls[c].auth)
          /\ (Reads(c) /\ calls[c].pc = "wait2" /\ req[calls[c].slot].status = 401)
               => /\ calls'[c].pc = "thrown"
                  /\ LoggedOut(tab')]_vars
  /\ \A c \in OneCall :
       []<>(calls[c].pc \in {"idle", "returned", "thrown"})

\* the retry with the fresh token was answered 401: logged out, thrown
C12_Witness ==
  \E c \in OneCall :
    /\ calls[c].pc = "thrown"
    /\ calls[c].error = "Session expired"
    /\ calls[c].sends = 2
    /\ calls[c].refreshes = 1
    /\ LoggedOut(tab)

\* C13: a rotation failure logs out at once and is not retried. When the
\* first attempt is answered 401 and no refresh token is stored, or
\* /auth/refresh answers with a status that is not OK, the call logs out and
\* throws having sent the original request once; what it throws is final.
C13_RotationFailureLogsOut ==
  [][\A c \in OneCall :
       /\ (Reads(c) /\ calls[c].pc = "wait1" /\ req[calls[c].slot].status = 401
             /\ tab.refreshToken = 0)
            => /\ calls'[c].pc = "thrown"
               /\ calls'[c].error = "Session expired"
               /\ calls'[c].sends = 1 /\ calls'[c].refreshes = 0
               /\ LoggedOut(tab')
       /\ (Reads(c) /\ calls[c].pc = "waitR" /\ req[calls[c].slot].status # 200)
            => /\ calls'[c].pc = "thrown"
               /\ calls'[c].error = "Session expired"
               /\ calls'[c].sends = 1 /\ calls'[c].refreshes = 1
               /\ LoggedOut(tab')
       /\ calls[c].pc = "thrown"
            => (calls'[c] = calls[c] \/ calls'[c] = NoCall)]_vars

\* /auth/refresh refused the stored refresh token: logged out, thrown, the
\* original request sent once
C13_Witness ==
  \E c \in OneCall :
    /\ calls[c].pc = "thrown"
    /\ calls[c].error = "Session expired"
    /\ calls[c].sends = 1
    /\ calls[c].refreshes = 1
    /\ tab.outbox # {}
    /\ LoggedOut(tab)

\* C14: at most one logout timer is pending, and it is the one logoutTimer
\* names; after logout none is pending.
C14_OneTimer ==
  /\ Cardinality(tab.timers) <= 1
  /\ \A x \in tab.timers : x.id = tab.logoutTimer
  /\ tab.accessToken = NoToken => tab.timers = {}

\* a second session was stored while the timer of the first was pending, and
\* one timer is pending
C14_Witness ==
  /\ now = 0
  /\ tab.refreshToken > 1
  /\ Cardinality(tab.timers) = 1

Base == 16384
DigitBits == 14

RECURSIVE Pow2(_)
Pow2(k) == IF k = 0 THEN 1 ELSE 2 * Pow2(k - 1)

RECURSIVE BNat(_)
BNat(n) == IF n = 0 THEN <<>> ELSE <<n % Base>> \o BNat(n \div Base)

RECURSIVE BInt(_)
BInt(b) == IF b = <<>> THEN 0 ELSE b[1] + Base * BInt(Tail(b))

RECURSIVE BNorm(_)
BNorm(b) ==
  IF b = <<>> THEN <<>>
  ELSE IF b[Len(b)] = 0 THEN BNorm(SubSeq(b, 1, Len(b) - 1)) ELSE b

RECURSIVE BAddC(_, _, _)
BAddC(a, b, c) ==
  IF a = <<>> /\ b = <<>> THEN (IF c = 0 THEN <<>> ELSE <<c>>)
  ELSE LET s == (IF a = <<>> THEN 0 ELSE a[1]) + (IF b = <<>> THEN 0 ELSE b[1]) + c
       IN <<s % Base>> \o BAddC(IF a = <<>> THEN <<>> ELSE Tail(a),
                                IF b = <<>> THEN <<>> ELSE Tail(b), s \div Base)

BAdd(a, b) == BAddC(a, b, 0)

\* b * k for a small k
RECURSIVE BMulSmallC(_, _, _)
BMulSmallC(b, k, c) ==
  IF b = <<>> THEN (IF c = 0 THEN <<>> ELSE <<c>>)
  ELSE LET s == b[1] * k + c
       IN <<s % Base>> \o BMulSmallC(Tail(b), k, s \div Base)

BMulSmall(b, k) == IF k = 0 THEN <<>> ELSE BMulSmallC(b, k, 0)

RECURSIVE BMul(_, _)
BMul(a, b) ==
  IF a = <<>> \/ b = <<>> THEN <<>>
  ELSE LET rest == BMul(a, Tail(b))
       IN BAdd(BMulSmall(a, b[1]), IF rest = <<>> THEN <<>> ELSE <<0>> \o rest)

\* quotient and remainder of b by a small k # 0, from the top digit
RECURSIVE BDivSmallAt(_, _, _)
BDivSmallAt(b, k, i) ==
  IF i > Len(b) THEN [q |-> <<>>, r |-> 0]
  ELSE LET up == BDivSmallAt(b, k, i + 1)
           s == up.r * Base + b[i]
       IN [q |-> <<s \div k>> \o up.q, r |-> s % k]

BDivSmall(b, k) ==
  LET x == BDivSmallAt(b, k, 1) IN [q |-> BNorm(x.q), r |-> x.r]

RECURSIVE BitLen(_)
BitLen(n) == IF n = 0 THEN 0 ELSE 1 + BitLen(n \div 2)

\* number of binary digits of b
BBits(b) == IF b = <<>> THEN 0 ELSE DigitBits * (Len(b) - 1) + BitLen(b[Len(b)])

\* b * 2^k and b \div 2^k
BShl(b, k) ==
  IF b = <<>> THEN <<>>
  ELSE [i \in 1..(k \div DigitBits) |-> 0] \o BMulSmall(b, Pow2(k % DigitBits))

BShr(b, k) ==
  IF k \div DigitBits >= Len(b) THEN <<>>
  ELSE BDivSmall(SubSeq(b, k \div DigitBits + 1, Len(b)), Pow2(k % DigitBits)).q

\* binary digit i (from 0) of b, and whether a digit below i is set
BBit(b, i) ==
  IF i \div DigitBits >= Len(b) THEN 0
  ELSE (b[i \div DigitBits + 1] \div Pow2(i % DigitBits)) % 2

BAnyBelow(b, i) ==
  \/ \E j \in 1..Len(b) : j <= i \div DigitBits /\ b[j] # 0
  \/ /\ i \div DigitBits < Len(b)
     /\ b[i \div DigitBits + 1] % Pow2(i % DigitBits) # 0

\* A double (finite, not negative) is m * 2^e with m of exactly 53 binary
\* digits, or zero. The double nearest to n * 2^e, ties to the even mantissa,
\* where inexact says that n lost a nonzero fraction: what every operation of
\* IEEE 754 returns for its exact result.
RoundInt(n, inexact, e) ==
  IF n = <<>> THEN [m |-> <<>>, e |-> 0]
  ELSE LET extra == BBits(n) - 53 IN
    IF extra <= 0 THEN [m |-> BShl(n, 0 - extra), e |-> e + extra]
    ELSE LET top == BShr(n, extra)
             up == /\ BBit(n, extra - 1) = 1
                   /\ \/ BAnyBelow(n, extra - 1)
                      \/ inexact
                      \/ top[1] % 2 = 1
             m == IF up THEN BAdd(top, <<1>>) ELSE top
         IN IF BBits(m) = 54 THEN [m |-> BShr(m, 1), e |-> e + extra + 1]
            ELSE [m |-> m, e |-> e + extra]

Double(n) == RoundInt(BNat(n), FALSE, 0)

FMul(x, y) == RoundInt(BMul(x.m, y.m), FALSE, x.e + y.e)

\* x / k for an integer k: 70 more binary digits than the mantissa has
FDivBy(x, k) ==
  LET d == BDivSmall(BShl(x.m, 70), k) IN RoundInt(d.q, d.r # 0, x.e - 70)

FAdd(x, y) ==
  IF x.m = <<>> THEN y
  ELSE IF y.m = <<>> THEN x
  ELSE LET e == IF x.e <= y.e THEN x.e ELSE y.e
       IN RoundInt(BAdd(BShl(x.m, x.e - e), BShl(y.m, y.e - e)), FALSE, e)

\* Math.floor of a double, as an integer
Floor(x) ==
  IF x.m = <<>> THEN 0
  ELSE IF x.e >= 0 THEN BInt(BShl(x.m, x.e))
  ELSE BInt(BShr(x.m, 0 - x.e))

\* ------------------------------------------------ reference data (MySQL)
\* The tables POST /api/dmgcalc reads. No handler of the server writes them.
pokemon ==
  { [sid |-> 25, name |-> "Pikachu"],
    [sid |-> 74, name |-> "Geodude"],
    [sid |-> 477, name |-> "Dusknoir"],
    [sid |-> 7, name |-> "Squirtle"],
    [sid |-> 54, name |-> "Psyduck"],
    [sid |-> 75, name |-> "Graveler"],
    [sid |-> 130, name |-> "Gyarados"],
    [sid |-> 230, name |-> "Kingdra"],
    [sid |-> 292, name |-> "Shedinja"],
    [sid |-> 999, name |-> "MissingNo"] }

\* MissingNo has no row; Graveler has the stats of Geodude; the defence of
\* Shedinja is 0 and its sp_def NULL
bst ==
  { [pokemon_sid |-> 25, hp |-> 35, attack |-> 55, sp_atk |-> 50,
     defence |-> 40, sp_def |-> 50, spd |-> 90],
    [pokemon_sid |-> 74, hp |-> 40, attack |-> 80, sp_atk |-> 30,
     defence |-> 100, sp_def |-> 30, spd |-> 20],
    [pokemon_sid |-> 477, hp |-> 45, attack |-> 100, sp_atk |-> 65,
     defence |-> 135, sp_def |-> 135, spd |-> 45],
    [pokemon_sid |-> 7, hp |-> 44, attack |-> 48, sp_atk |-> 50,
     defence |-> 65, sp_def |-> 64, spd |-> 43],
    [pokemon_sid |-> 54, hp |-> 50, attack |-> 52, sp_atk |-> 65,
     defence |-> 48, sp_def |-> 50, spd |-> 55],
    [pokemon_sid |-> 75, hp |-> 40, attack |-> 80, sp_atk |-> 30,
     defence |-> 100, sp_def |-> 30, spd |-> 20],
    [pokemon_sid |-> 130, hp |-> 95, attack |-> 125, sp_atk |-> 60,
     defence |-> 79, sp_def |-> 100, spd |-> 81],
    [pokemon_sid |-> 230, hp |-> 75, attack |-> 95, sp_atk |-> 95,
     defence |-> 95, sp_def |-> 95, spd |-> 85],
    [pokemon_sid |-> 292, hp |-> 1, attack |-> 90, sp_atk |-> 30,
     defence |-> 0, sp_def |-> NULL, spd |-> 40] }

moves ==
  { [code |-> 85, name |-> "Thunderbolt", power |-> 90,
     type_name |-> "Electric", category |-> "Special"],
    [code |-> 57, name |-> "Surf", power |-> 90,
     type_name |-> "Water", category |-> "Special"],
    [code |-> 33, name |-> "Tackle", power |-> 40,
     type_name |-> "Normal", category |-> "Physical"],
    [code |-> 45, name |-> "Growl", power |-> NULL,
     type_name |-> "Normal", category |-> "Status"],
    [code |-> 150, name |-> "Splash", power |-> 0,
     type_name |-> "Normal", category |-> "Physical"],
    [code |-> 900, name |-> "Glitch", power |-> 50,
     type_name |-> "Normal", category |-> "physical"],
    [code |-> 165, name |-> "Struggle", power |-> 50,
     type_name |-> "Typeless", category |-> "Physical"],
    [code |-> 88, name |-> "Rock Throw", power |-> 50,
     type_name |-> "Rock", category |-> "Physical"] }

pokemon_moves ==
  { [pokemon_sid |-> 25, move_code |-> 85],
    [pokemon_sid |-> 25, move_code |-> 57],
    [pokemon_sid |-> 25, move_code |-> 45],
    [pokemon_sid |-> 25, move_code |-> 150],
    [pokemon_sid |-> 25, move_code |-> 900],
    [pokemon_sid |-> 25, move_code |-> 165],
    [pokemon_sid |-> 74, move_code |-> 33],
    [pokemon_sid |-> 74, move_code |-> 165],
    [pokemon_sid |-> 74, move_code |-> 88] }

\* rows in table order; a type column is a string with whitespace around it,
\* the empty string standing for NULL as well. Graveler has the types of
\* Geodude in the other order; both columns of Psyduck hold Water
pokemon_types ==
  << [pokemon_sid |-> 25, type_name |-> Text("Electric"), type_name1 |-> Text("")],
     [pokemon_sid |-> 74, type_name |-> Text("Rock"), type_name1 |-> Text("Ground")],
     [pokemon_sid |-> 477, type_name |-> Text("Ghost"), type_name1 |-> Text("")],
     [pokemon_sid |-> 7, type_name |-> Text("Water"), type_name1 |-> Text("")],
     [pokemon_sid |-> 54, type_name |-> Text("Water"), type_name1 |-> Padded("Water")],
     [pokemon_sid |-> 75, type_name |-> Text("Ground"), type_name1 |-> Text("Rock")],
     [pokemon_sid |-> 130, type_name |-> Text("Water"), type_name1 |-> Text("Flying")],
     [pokemon_sid |-> 230, type_name |-> Text("Water"), type_name1 |-> Text("Dragon")],
     [pokemon_sid |-> 292, type_name |-> Text("Bug"), type_name1 |-> Text("Ghost")] >>

\* strength and weakness are comma-separated lists: the items between commas
types ==
  { [name |-> "Electric",
     strength |-> <<Text("Water"), Padded("Flying")>>,
     weakness |-> <<Text("Electric"), Text("Grass"), Text("Dragon"), Text("Ground")>>],
    [name |-> "Water",
     strength |-> <<Text("Fire"), Padded("Ground"), Padded("Rock")>>,
     weakness |-> <<Text("Water"), Text("Grass"), Text("Dragon")>>],
    [name |-> "Normal",
     strength |-> <<>>,
     weakness |-> <<Text("Rock"), Padded("Ghost")>>] }

\* ------------------------------------------------- POST /api/dmgcalc
NAME_MAX == 100
LEVEL_MIN == 1
LEVEL_MAX == 100
LEVEL_DEFAULT == 50

\* a name of 101 characters
LongName ==
  "aaaaaaaaaaaaaaaaaaaaaaaaaaaaaaaaaaaaaaaaaaaaaaaaaaaaaaaaaaaaaaaaaaaaaaaaaaaaaaaaaaaaaaaaaaaaaaaaaaaaa"

\* the values of a request body's attacker, defender and move
AttackerInputs ==
  { Text("Pikachu"), Padded("Pikachu"), Text("Geodude"), Text("MissingNo"),
    Text("Nobody"), Text(""), Padded(""), Text(LongName), Absent }

DefenderInputs ==
  { Text("Geodude"), Text("Dusknoir"), Text("Pikachu"), Text("MissingNo"),
    Text("Squirtle"), Text("Psyduck"), Text("Graveler"), Text("Gyarados"),
    Text("Kingdra"), Text("Shedinja"),
    Text("Nobody"), Padded(""), Text(LongName), Absent }

MoveInputs ==
  { Text("Thunderbolt"), Text("Surf"), Text("Tackle"), Text("Growl"),
    Text("Splash"), Text("Glitch"), Text("Struggle"), Text("Rock Throw"),
    Text("Nothing"),
    Padded(""), Text(LongName), Absent }

\* the values of attacker_level: absent, null, a number, a string that reads
\* as the number n, or as no number when n is NULL
LevelInputs ==
  { [kind |-> "undefined", n |-> 0], [kind |-> "null", n |-> 0],
    [kind |-> "number", n |-> 0], [kind |-> "number", n |-> 1],
    [kind |-> "number", n |-> 50], [kind |-> "number", n |-> 100],
    [kind |-> "number", n |-> 101], [kind |-> "string", n |-> 50],
    [kind |-> "string", n |-> NULL] }

\* !v || typeof v !== 'string'
MissingOrNotString(v) == ~v.str \/ (v.lead = 0 /\ v.core = "")

trim(v) == v.core

\* Number(v) of a level that is not undefined; isNaN of it
isNaN(v) == v.kind = "string" /\ v.n = NULL
Number(v) == IF v.kind = "null" THEN 0 ELSE v.n

\* !n of a number or NULL, and n || d
Falsy(n) == n = NULL \/ n = 0
Or(n, d) == IF Falsy(n) THEN d ELSE n

\* res.status(status).json({ error })
CalcRespond(c, status, error) ==
  [c EXCEPT !.pc = "done", !.status = status, !.error = error]

\* the handler up to its first query: the validation of the body
CalcStartFrom(attackers, defenders, moveNames, levels) ==
  /\ calc.pc = "idle"
  /\ \E a \in attackers, d \in defenders, m \in moveNames, l \in levels :
       LET attacker_level ==
             IF l.kind = "undefined"
             THEN [kind |-> "number", n |-> LEVEL_DEFAULT] ELSE l
           level == Number(attacker_level)
           c == [NoCalc EXCEPT !.attacker = a, !.defender = d, !.move = m,
                               !.attacker_level = attacker_level]
       IN calc' =
            IF MissingOrNotString(a)
            THEN CalcRespond(c, 400, "Attacker name is required and must be a string")
            ELSE IF MissingOrNotString(d)
            THEN CalcRespond(c, 400, "Defender name is required and must be a string")
            ELSE IF MissingOrNotString(m)
            THEN CalcRespond(c, 400, "Move name is required and must be a string")
            ELSE IF isNaN(attacker_level) \/ level < LEVEL_MIN \/ level > LEVEL_MAX
            THEN CalcRespond(c, 400, "Attacker level must be a number between 1 and 100")
            ELSE IF Len(trim(a)) = 0
            THEN CalcRespond(c, 400, "Attacker name cannot be empty")
            ELSE IF Len(trim(d)) = 0
            THEN CalcRespond(c, 400, "Defender name cannot be empty")
            ELSE IF Len(trim(m)) = 0
            THEN CalcRespond(c, 400, "Move name cannot be empty")
            ELSE IF \/ Len(trim(a)) > NAME_MAX
                    \/ Len(trim(d)) > NAME_MAX
                    \/ Len(trim(m)) > NAME_MAX
            THEN CalcRespond(c, 400, "Input names too long (max 100 chars)")
            ELSE [c EXCEPT !.pc = "q_attacker", !.level = level,
                           !.attacker_trim = trim(a),
                           !.defender_trim = trim(d),
                           !.move_trim = trim(m)]

CalcStart ==
  CalcStartFrom(AttackerInputs, DefenderInputs, MoveInputs, LevelInputs)

\* SELECT sid FROM pokemon WHERE name = ? LIMIT 1
SelectPokemon(name) == {r \in pokemon : r.name = name}

CalcAttacker ==
  /\ calc.pc = "q_attacker"
  /\ LET rows == SelectPokemon(calc.attacker_trim) IN
       IF rows = {}
       THEN calc' = CalcRespond(calc, 400,
                      "Pokemon \"" \o calc.attacker_trim \o "\" not found")
       ELSE \E row \in rows :
              calc' = [calc EXCEPT !.pc = "q_defender", !.attacker_sid = row.sid]

CalcDefender ==
  /\ calc.pc = "q_defender"
  /\ LET rows == SelectPokemon(calc.defender_trim) IN
       IF rows = {}
       THEN calc' = CalcRespond(calc, 400,
                      "Pokemon \"" \o calc.defender_trim \o "\" not found")
       ELSE \E row \in rows :
              calc' = [calc EXCEPT !.pc = "q_atkstats", !.defender_sid = row.sid]

\* SELECT hp, attack, sp_atk, defence, sp_def, spd FROM bst
\* WHERE pokemon_sid = ? LIMIT 1, and (rows && rows[0]) || {}
SelectStats_Either(sid) ==
  {[hp |-> r.hp, attack |-> r.attack, sp_atk |-> r.sp_atk,
    defence |-> r.defence, sp_def |-> r.sp_def, spd |-> r.spd] :
     r \in {x \in bst : x.pokemon_sid \in {sid, 25}}}

SelectStats(sid) ==
  LET rows == {r \in bst : r.pokemon_sid = sid} IN
    IF rows = {} THEN {NoStats}
    ELSE {[hp |-> r.hp, attack |-> r.attack, sp_atk |-> r.sp_atk,
           defence |-> r.defence, sp_def |-> r.sp_def, spd |-> r.spd] : r \in rows}

CalcAtkStats ==
  /\ calc.pc = "q_atkstats"
  /\ \E atkStats \in SelectStats(calc.attacker_sid) :
       calc' = IF Falsy(atkStats.hp)
               THEN CalcRespond(calc, 500, "Attacker stats not found in database")
               ELSE [calc EXCEPT !.pc = "q_defstats", !.atkStats = atkStats]

CalcDefStats ==
  /\ calc.pc = "q_defstats"
  /\ \E defStats \in SelectStats(calc.defender_sid) :
       calc' = IF Falsy(defStats.hp)
               THEN CalcRespond(calc, 500, "Defender stats not found in database")
               ELSE [calc EXCEPT !.pc = "q_move", !.defStats = defStats]

\* SELECT code, power, accuracy, type_name, category FROM moves
\* WHERE name = ? LIMIT 1
SelectMove(name) ==
  {[code |-> r.code, power |-> r.power, type_name |-> r.type_name,
    category |-> r.category] : r \in {x \in moves : x.name = name}}

NoPower_NullOnly(mv) == mv.power = NULL

\* mv.power === null || mv.power === undefined || mv.power === 0
NoPower(mv) == mv.power = NULL \/ mv.power = 0

ValidCategory_Any(category) == TRUE

\* ['Physical', 'Special'].includes(mv.category)
ValidCategory(category) == category \in {"Physical", "Special"}

CalcMove ==
  /\ calc.pc = "q_move"
  /\ LET rows == SelectMove(calc.move_trim) IN
       IF rows = {}
       THEN calc' = CalcRespond(calc, 400,
                      "Move \"" \o calc.move_trim \o "\" not found")
       ELSE \E mv \in rows :
              calc' =
                IF NoPower(mv)
                THEN CalcRespond(calc, 400,
                       "Move \"" \o calc.move_trim \o "\" has no power (status move?)")
                ELSE IF ~ValidCategory(mv.category)
                THEN CalcRespond(calc, 500, "Invalid move category in database")
                ELSE [calc EXCEPT !.pc = "q_learn", !.mv = mv]

SelectLearn_ByMove(sid, code) == {r \in pokemon_moves : r.move_code = code}

\* SELECT 1 FROM pokemon_moves WHERE pokemon_sid = ? AND move_code = ? LIMIT 1
SelectLearn(sid, code) ==
  {r \in pokemon_moves : r.pokemon_sid = sid /\ r.move_code = code}

CalcLearn ==
  /\ calc.pc = "q_learn"
  /\ calc' =
       IF SelectLearn(calc.attacker_sid, calc.mv.code) = {}
       THEN CalcRespond(calc, 400,
              "Pokemon \"" \o calc.attacker_trim \o "\" cannot learn \""
                \o calc.move_trim \o "\"")
       ELSE [calc EXCEPT !.pc = "q_deftypes"]

\* SELECT type_name, type_name1 FROM pokemon_types WHERE pokemon_sid = ?
SelectTypes(sid) ==
  LET Of(r) == r.pokemon_sid = sid IN SelectSeq(pokemon_types, Of)

\* a string that is not empty (NULL is read as the empty string)
Truthy(v) == ~(v.lead = 0 /\ v.core = "")

\* rows.forEach(r => { push type_name if set; push type_name1 if set })
RECURSIVE PushTypes(_)
PushTypes(rows) ==
  IF rows = <<>> THEN <<>>
  ELSE (IF Truthy(rows[1].type_name) THEN <<rows[1].type_name>> ELSE <<>>)
       \o (IF Truthy(rows[1].type_name1) THEN <<rows[1].type_name1>> ELSE <<>>)
       \o PushTypes(Tail(rows))

\* .map(t => String(t).trim()).filter(Boolean)
RECURSIVE TrimAll(_)
TrimAll(s) ==
  IF s = <<>> THEN <<>>
  ELSE (IF trim(s[1]) = "" THEN <<>> ELSE <<trim(s[1])>>) \o TrimAll(Tail(s))

Distinct_Keep(s) == s

\* Array.from(new Set(s)): the first occurrence of every value, in order
RECURSIVE Distinct(_)
Distinct(s) ==
  IF s = <<>> THEN <<>>
  ELSE LET init == Distinct(SubSeq(s, 1, Len(s) - 1))
           last == s[Len(s)]
       IN IF \E i \in 1..Len(init) : init[i] = last THEN init
          ELSE Append(init, last)

TypeNames(rows) == Distinct(TrimAll(PushTypes(rows)))

CalcDefTypes ==
  /\ calc.pc = "q_deftypes"
  /\ calc' = [calc EXCEPT !.pc = "q_types",
                          !.defender_types = TypeNames(SelectTypes(calc.defender_sid))]

\* SELECT strength, weakness FROM types WHERE name = ? LIMIT 1
SelectTypeData(name) == {r \in types : r.name = name}

\* (list || '').split(',').map(s => s.trim()).filter(Boolean), as a set
Items(list) == {trim(list[i]) : i \in 1..Len(list)} \ {""}

Half == FDivBy(Double(1), 2)
OneAndHalf == FDivBy(Double(3), 2)

TypeFold_First(dts, td, acc) ==
  IF dts = <<>> THEN acc
  ELSE LET a == IF dts[1] \in Items(td.strength)
                THEN FMul(acc, Double(2)) ELSE acc
       IN IF dts[1] \in Items(td.weakness) THEN FMul(a, Half) ELSE a

\* defender_types.forEach(dt => { *= 2 if a strength; *= 0.5 if a weakness })
RECURSIVE TypeFold(_, _, _)
TypeFold(dts, td, acc) ==
  IF dts = <<>> THEN acc
  ELSE LET a == IF dts[1] \in Items(td.strength)
                THEN FMul(acc, Double(2)) ELSE acc
           b == IF dts[1] \in Items(td.weakness) THEN FMul(a, Half) ELSE a
       IN TypeFold(Tail(dts), td, b)

CalcTypes ==
  /\ calc.pc = "q_types"
  /\ LET rows == SelectTypeData(calc.mv.type_name) IN
       IF rows = {}
       THEN calc' = [calc EXCEPT !.pc = "q_atktypes",
                                 !.type_multiplier = Double(1)]
       ELSE \E td \in rows :
              calc' = [calc EXCEPT !.pc = "q_atktypes",
                                   !.type_multiplier =
                                     TypeFold(calc.defender_types, td, Double(1))]

Stab_Always(attacker_types, type_name) == OneAndHalf

\* attacker_types.includes(mv.type_name) ? 1.5 : 1.0
Stab(attacker_types, type_name) ==
  IF \E i \in 1..Len(attacker_types) : attacker_types[i] = type_name
  THEN OneAndHalf ELSE Double(1)

AttackStat_Attack(c) == Or(c.atkStats.attack, 0)

AttackStat(c) ==
  IF c.mv.category = "Physical" THEN Or(c.atkStats.attack, 0)
  ELSE Or(c.atkStats.sp_atk, 0)

DefenceStat(c) ==
  IF c.mv.category = "Physical" THEN Or(c.defStats.defence, 1)
  ELSE Or(c.defStats.sp_def, 1)

\* (((2 * level / 5) + 2) * power * (attack / defence)) / 50 + 2, every
\* operation rounded to a double
BaseDamage(c) ==
  LET attacker_level_num == Or(c.level, LEVEL_DEFAULT)
      lv == FAdd(FDivBy(FMul(Double(2), Double(attacker_level_num)), 5), Double(2))
      ratio == FDivBy(Double(AttackStat(c)), Or(DefenceStat(c), 1))
  IN FAdd(FDivBy(FMul(FMul(lv, Double(Or(c.mv.power, 0))), ratio), 50), Double(2))

\* the last query, the computation and the 200 response
CalcStab ==
  /\ calc.pc = "q_atktypes"
  /\ LET attacker_types == TypeNames(SelectTypes(calc.attacker_sid))
         stab == Stab(attacker_types, calc.mv.type_name)
         base_damage == BaseDamage(calc)
         damage == Floor(FMul(FMul(base_damage, stab), calc.type_multiplier))
     IN calc' = [calc EXCEPT !.pc = "done", !.status = 200,
                             !.damage = damage,
                             !.details = [base_damage |-> Floor(base_damage),
                                          stab |-> stab,
                                          type_multiplier |-> calc.type_multiplier]]

QueryPcs ==
  {"q_attacker", "q_defender", "q_atkstats", "q_defstats", "q_move",
   "q_learn", "q_deftypes", "q_types", "q_atktypes"}

\* a query is rejected: catch (e)
CalcDbError ==
  /\ calc.pc \in QueryPcs
  /\ calc' = CalcRespond(calc, 500, "Server error")

\* the response is sent; the handler keeps nothing
CalcFinish ==
  /\ calc.pc = "done"
  /\ calc' = NoCalc

NextCalc ==
  \/ CalcStart /\ UNCHANGED <<users, admin, refresh_tokens, now, nextToken, req, held, tab, calls, kept, gymVars>>
  \/ CalcAttacker /\ UNCHANGED <<users, admin, refresh_tokens, now, nextToken, req, held, tab, calls, kept, gymVars>>
  \/ CalcDefender /\ UNCHANGED <<users, admin, refresh_tokens, now, nextToken, req, held, tab, calls, kept, gymVars>>
  \/ CalcAtkStats /\ UNCHANGED <<users, admin, refresh_tokens, now, nextToken, req, held, tab, calls, kept, gymVars>>
  \/ CalcDefStats /\ UNCHANGED <<users, admin, refresh_tokens, now, nextToken, req, held, tab, calls, kept, gymVars>>
  \/ CalcMove /\ UNCHANGED <<users, admin, refresh_tokens, now, nextToken, req, held, tab, calls, kept, gymVars>>
  \/ CalcLearn /\ UNCHANGED <<users, admin, refresh_tokens, now, nextToken, req, held, tab, calls, kept, gymVars>>
  \/ CalcDefTypes /\ UNCHANGED <<users, admin, refresh_tokens, now, nextToken, req, held, tab, calls, kept, gymVars>>
  \/ CalcTypes /\ UNCHANGED <<users, admin, refresh_tokens, now, nextToken, req, held, tab, calls, kept, gymVars>>
  \/ CalcStab /\ UNCHANGED <<users, admin, refresh_tokens, now, nextToken, req, held, tab, calls, kept, gymVars>>
  \/ CalcDbError /\ UNCHANGED <<users, admin, refresh_tokens, now, nextToken, req, held, tab, calls, kept, gymVars>>
  \/ CalcFinish /\ UNCHANGED <<users, admin, refresh_tokens, now, nextToken, req, held, tab, calls, kept, gymVars>>

SpecCalc == Init /\ [][NextCalc]_vars

\* the client keeps the body it sent and the response it got
CalcKeep ==
  /\ calc.pc = "done"
  /\ ~kept.has
  /\ kept' = [has |-> TRUE, attacker |-> calc.attacker,
              defender |-> calc.defender, move |-> calc.move,
              attacker_level |-> calc.attacker_level,
              status |-> calc.status, error |-> calc.error,
              damage |-> calc.damage, details |-> calc.details]
  /\ UNCHANGED <<users, admin, refresh_tokens, now, nextToken, req, held, tab, calls, calc, gymVars>>

\* requests one after the other with a few bodies that are sent more than
\* once, one of their responses kept
NextCalcAgain ==
  \/ CalcStartFrom({Text("Pikachu"), Padded("Pikachu"), Text("Geodude")},
                   {Text("Geodude"), Text("Graveler"), Text("Psyduck"),
                    Text("Dusknoir"), Text("MissingNo")},
                   {Text("Thunderbolt"), Text("Surf"), Text("Tackle"),
                    Text("Growl")},
                   { [kind |-> "undefined", n |-> 0], [kind |-> "null", n |-> 0],
                     [kind |-> "number", n |-> 50], [kind |-> "number", n |-> 100] })
       /\ UNCHANGED <<users, admin, refresh_tokens, now, nextToken, req, held, tab, calls, kept, gymVars>>
  \/ CalcAttacker /\ UNCHANGED <<users, admin, refresh_tokens, now, nextToken, req, held, tab, calls, kept, gymVars>>
  \/ CalcDefender /\ UNCHANGED <<users, admin, refresh_tokens, now, nextToken, req, held, tab, calls, kept, gymVars>>
  \/ CalcAtkStats /\ UNCHANGED <<users, admin, refresh_tokens, now, nextToken, req, held, tab, calls, kept, gymVars>>
  \/ CalcDefStats /\ UNCHANGED <<users, admin, refresh_tokens, now, nextToken, req, held, tab, calls, kept, gymVars>>
  \/ CalcMove /\ UNCHANGED <<users, admin, refresh_tokens, now, nextToken, req, held, tab, calls, kept, gymVars>>
  \/ CalcLearn /\ UNCHANGED <<users, admin, refresh_tokens, now, nextToken, req, held, tab, calls, kept, gymVars>>
  \/ CalcDefTypes /\ UNCHANGED <<users, admin, refresh_tokens, now, nextToken, req, held, tab, calls, kept, gymVars>>
  \/ CalcTypes /\ UNCHANGED <<users, admin, refresh_tokens, now, nextToken, req, held, tab, calls, kept, gymVars>>
  \/ CalcStab /\ UNCHANGED <<users, admin, refresh_tokens, now, nextToken, req, held, tab, calls, kept, gymVars>>
  \/ CalcDbError /\ UNCHANGED <<users, admin, refresh_tokens, now, nextToken, req, held, tab, calls, kept, gymVars>>
  \/ CalcFinish /\ UNCHANGED <<users, admin, refresh_tokens, now, nextToken, req, held, tab, calls, kept, gymVars>>
  \/ CalcKeep

SpecCalcAgain == Init /\ [][NextCalcAgain]_vars

\* ------------------------------------------------------------ claims
\* the message the stated order gives for a body: the first failing
\* precondition among names, level, attacker, defender, move, power,
\* category, learnset; the empty set when none fails
NameInvalid(v) == ~v.str \/ Len(trim(v)) = 0 \/ Len(trim(v)) > NAME_MAX

NameErrors ==
  { "Attacker name is required and must be a string",
    "Defender name is required and must be a string",
    "Move name is required and must be a string",
    "Attacker name cannot be empty", "Defender name cannot be empty",
    "Move name cannot be empty", "Input names too long (max 100 chars)" }

StatedError(c) ==
  LET lv == Number(c.attacker_level)
      mvs == SelectMove(trim(c.move))
      atk == SelectPokemon(trim(c.attacker))
  IN IF NameInvalid(c.attacker) \/ NameInvalid(c.defender) \/ NameInvalid(c.move)
     THEN NameErrors
     ELSE IF isNaN(c.attacker_level) \/ lv < LEVEL_MIN \/ lv > LEVEL_MAX
     THEN {"Attacker level must be a number between 1 and 100"}
     ELSE IF atk = {}
     THEN {"Pokemon \"" \o trim(c.attacker) \o "\" not found"}
     ELSE IF SelectPokemon(trim(c.defender)) = {}
     THEN {"Pokemon \"" \o trim(c.defender) \o "\" not found"}
     ELSE IF mvs = {}
     THEN {"Move \"" \o trim(c.move) \o "\" not found"}
     ELSE IF \E mv \in mvs : NoPower(mv)
     THEN {"Move \"" \o trim(c.move) \o "\" has no power (status move?)"}
     ELSE IF \E mv \in mvs : ~ValidCategory(mv.category)
     THEN {"Invalid move category in database"}
     ELSE IF \A a \in atk, mv \in mvs : SelectLearn(a.sid, mv.code) = {}
     THEN {"Pokemon \"" \o trim(c.attacker) \o "\" cannot learn \""
             \o trim(c.move) \o "\""}
     ELSE {""}

\* the failures that are not preconditions of the request
Outage ==
  { "Server error", "Attacker stats not found in database",
    "Defender stats not found in database" }

\* C16: the preconditions of POST /api/dmgcalc are checked in the order names
\* (non-empty, at most 100 characters), level in [1,100], attacker exists,
\* defender exists, move exists, nonzero power, category Physical or Special,
\* learnset: a response that is not an outage carries the error of the first
\* precondition of this order that fails, and no error when none fails.
\* Violated: the level is checked before the names are trimmed, so a blank or
\* overlong name sent with a level out of range is answered with the level's
\* error.
C16_StatedOrder ==
  (calc.pc = "done" /\ calc.error \notin Outage)
    => calc.error \in StatedError(calc)

\* the request names a move whose row has power 0 or NULL
StatusMove(c) == \E r \in moves : r.name = trim(c.move) /\ Falsy(r.power)

\* C17: a request whose move resolves to a move with power 0 or NULL is
\* answered 400 'has no power' when the move's row is read, whatever its
\* category, the attacker, the defender and the level are; every response to
\* such a request is a 400, or the 500 of an outage, and none carries a
\* damage value.
C17_StatusMoveRejected ==
  /\ []((calc.pc = "done" /\ calc.move.str /\ StatusMove(calc))
          => /\ calc.status # 200 /\ calc.damage = NULL
             /\ calc.status = 400 \/ calc.error \in Outage)
  /\ [][(CalcMove /\ StatusMove(calc))
          => /\ calc'.pc = "done"
             /\ calc'.status = 400
             /\ calc'.error =
                  "Move \"" \o calc.move_trim \o "\" has no power (status move?)"
             /\ calc'.damage = NULL]_vars

\* a move of power 0 in a valid category is refused by a Pokemon that learns it
C17_Witness ==
  /\ calc.pc = "done"
  /\ calc.status = 400
  /\ calc.move_trim = "Splash"
  /\ calc.attacker_trim = "Pikachu"
  /\ calc.error = "Move \"Splash\" has no power (status move?)"

\* attacker, defender and move of the request each resolve, and the move
\* has nonzero power and a valid category
Resolves(c) ==
  /\ SelectPokemon(c.attacker_trim) # {}
  /\ SelectPokemon(c.defender_trim) # {}
  /\ \E r \in moves :
       r.name = c.move_trim /\ ~Falsy(r.power)
         /\ r.category \in {"Physical", "Special"}

\* a pokemon_moves row links the attacker of the request to its move
Learns(c) ==
  \E p \in pokemon, r \in moves, l \in pokemon_moves :
    /\ p.name = c.attacker_trim /\ r.name = c.move_trim
    /\ l.pokemon_sid = p.sid /\ l.move_code = r.code

\* C18: when attacker, defender and move resolve and the move has nonzero
\* power and a valid category but no pokemon_moves row links the attacker to
\* the move, the learnset query's answer ends the request with 400 'cannot
\* learn' and no damage value; every response to such a request is a 400, or
\* the 500 of an outage; a response carries a damage value only if the
\* attacker's learnset contains the move.
C18_LearnsetRequired ==
  /\ []((calc.pc = "done" /\ calc.status = 200) => Learns(calc))
  /\ []((calc.pc = "done" /\ calc.damage # NULL) => calc.status = 200)
  /\ []((calc.pc = "done" /\ calc.attacker_trim # "" /\ Resolves(calc)
            /\ ~Learns(calc))
          => \/ calc.status = 400 /\ calc.damage = NULL
             \/ calc.error \in Outage)
  /\ [][(CalcLearn /\ Resolves(calc) /\ ~Learns(calc))
          => /\ calc'.pc = "done"
             /\ calc'.status = 400
             /\ calc'.error =
                  "Pokemon \"" \o calc.attacker_trim \o "\" cannot learn \""
                    \o calc.move_trim \o "\""
             /\ calc'.damage = NULL]_vars

\* Pikachu, Geodude and Tackle all exist, and Pikachu does not learn Tackle
C18_Witness ==
  /\ calc.pc = "done"
  /\ calc.status = 400
  /\ calc.attacker_sid = 25
  /\ calc.defender_sid = 74
  /\ calc.mv.code = 33
  /\ calc.error = "Pokemon \"Pikachu\" cannot learn \"Tackle\""

\* the request names a move of nonzero power whose category is neither
\* 'Physical' nor 'Special'
BadCategoryMove(c) ==
  \E r \in moves :
    r.name = trim(c.move) /\ ~Falsy(r.power)
      /\ r.category \notin {"Physical", "Special"}

\* C19: a move with nonzero power whose category is not exactly 'Physical'
\* or 'Special' ends the request with status 500 when the move's row is
\* read ('Invalid move category in database'), not with a 400 and not with
\* a damage value; no response to a request naming such a move carries a
\* damage value.
C19_InvalidCategoryIs500 ==
  /\ []((calc.pc = "done" /\ calc.move.str /\ BadCategoryMove(calc))
          => (calc.status # 200 /\ calc.damage = NULL))
  /\ [][(CalcMove /\ BadCategoryMove(calc))
          => /\ calc'.pc = "done"
             /\ calc'.status = 500
             /\ calc'.error = "Invalid move category in database"
             /\ calc'.damage = NULL]_vars

\* Glitch (power 50, category 'physical') named by a Pokemon that learns it
C19_Witness ==
  /\ calc.pc = "done"
  /\ calc.status = 500
  /\ calc.move_trim = "Glitch"
  /\ calc.attacker_trim = "Pikachu"
  /\ calc.error = "Invalid move category in database"

\* the factors of a 200 response as integers: twice the stab factor and four
\* times the type multiplier
StabTwice(c) == Floor(FMul(c.details.stab, Double(2)))
TypeTimesFour(c) == Floor(FMul(c.details.type_multiplier, Double(4)))

\* baseDamage = (((2*level/5)+2) * power * attack / defence) / 50 + 2 as the
\* fraction ExactNum / ExactDen of integers, without any rounding
ExactNum(c) ==
  (2 * Or(c.level, LEVEL_DEFAULT) + 10) * c.mv.power * AttackStat(c)
    + 500 * DefenceStat(c)
ExactDen(c) == 250 * DefenceStat(c)

\* floor(baseDamage * stab * typeMultiplier) and floor(baseDamage)
ExactDamage(c) ==
  (ExactNum(c) * StabTwice(c) * TypeTimesFour(c)) \div (ExactDen(c) * 8)
ExactBase(c) == ExactNum(c) \div ExactDen(c)

\* C20: for every valid input the damage returned is
\* floor(baseDamage * stab * typeMultiplier) with baseDamage =
\* (((2*level/5)+2) * power * offensiveStat / defensiveStat) / 50 + 2 computed
\* without intermediate rounding, and the breakdown is floor(baseDamage), the
\* stab factor and the type multiplier used.
\* Violated: the handler divides the stats first and rounds every operation
\* to a double, and a product that is an integer exactly comes out just
\* below it.
C20_ExactDamage ==
  (calc.pc = "done" /\ calc.status = 200)
    => /\ calc.damage = ExactDamage(calc)
       /\ calc.details.base_damage = ExactBase(calc)
       /\ calc.details.stab =
            Stab(TypeNames(SelectTypes(calc.attacker_sid)), calc.mv.type_name)
       /\ calc.details.type_multiplier = calc.type_multiplier

\* the distinct types of Pokemon sid, and the types the strength and the
\* weakness list of a move type name
TypeSet(sid) ==
  LET rows == SelectTypes(sid) IN
    ({trim(rows[i].type_name) : i \in 1..Len(rows)}
       \cup {trim(rows[i].type_name1) : i \in 1..Len(rows)}) \ {""}

StrengthSet(type_name) ==
  UNION {Items(r.strength) : r \in {x \in types : x.name = type_name}}

WeaknessSet(type_name) ==
  UNION {Items(r.weakness) : r \in {x \in types : x.name = type_name}}

\* 2 ^ (strengths among the defender's types) / 2 ^ (weaknesses among them)
StatedMultiplier(c) ==
  FDivBy(Double(Pow2(Cardinality(TypeSet(c.defender_sid)
                                   \cap StrengthSet(c.mv.type_name)))),
         Pow2(Cardinality(TypeSet(c.defender_sid)
                            \cap WeaknessSet(c.mv.type_name))))

\* C21: the type multiplier of a response is the product, over the distinct
\* types of the defender, of 2 for each type in the strength list of the
\* move's type and 0.5 for each type in its weakness list; with at most two
\* defender types it is one of 0.25, 0.5, 1, 2, 4.
C21_TypeMultiplier ==
  (calc.pc = "done" /\ calc.status = 200)
    => /\ calc.details.type_multiplier = StatedMultiplier(calc)
       /\ Cardinality(TypeSet(calc.defender_sid)) <= 2
            => calc.details.type_multiplier \in
                 { FDivBy(Double(1), 4), Half, Double(1), Double(2), Double(4) }

\* Surf against Kingdra (Water, Dragon), both in the weakness list of Water
C21_Witness ==
  /\ calc.pc = "done"
  /\ calc.status = 200
  /\ calc.move_trim = "Surf"
  /\ calc.defender_trim = "Kingdra"
  /\ calc.details.type_multiplier = FDivBy(Double(1), 4)

\* C22: the stab factor of a response is 1.5 exactly when the move's type is
\* one of the attacker's types and 1.0 otherwise, whoever the defender is and
\* whatever the move's category is.
C22_Stab ==
  (calc.pc = "done" /\ calc.status = 200)
    => calc.details.stab =
         IF calc.mv.type_name \in TypeSet(calc.attacker_sid)
         THEN OneAndHalf ELSE Double(1)

\* Pikachu (Electric) uses Surf (Water): no bonus
C22_Witness ==
  /\ calc.pc = "done"
  /\ calc.status = 200
  /\ calc.attacker_trim = "Pikachu"
  /\ calc.move_trim = "Surf"
  /\ calc.details.stab = Double(1)

\* the stat pair as stated: by category, the defensive one floored at 1
StatedAttack(c) ==
  Max(IF c.mv.category = "Physical" THEN c.atkStats.attack
      ELSE c.atkStats.sp_atk, 0)

StatedDefence(c) ==
  Max(IF c.mv.category = "Physical" THEN c.defStats.defence
      ELSE c.defStats.sp_def, 1)

\* floor(baseDamage) with the stated pair
StatedBase(c) ==
  ((2 * Or(c.level, LEVEL_DEFAULT) + 10) * c.mv.power * StatedAttack(c)
     + 500 * StatedDefence(c)) \div (250 * StatedDefence(c))

\* C23: a Physical move uses the attacker's attack and the defender's
\* defence, a Special move the attacker's sp_atk and the defender's sp_def;
\* the divisor is the defensive stat floored at 1, so it is at least 1 for
\* every stored value (0 and NULL included) and nothing is divided by zero;
\* the base damage of the response is the one of this pair.
C23_StatPair ==
  (calc.pc = "done" /\ calc.status = 200)
    => /\ AttackStat(calc) = StatedAttack(calc)
       /\ DefenceStat(calc) = StatedDefence(calc)
       /\ Or(DefenceStat(calc), 1) >= 1
       /\ calc.details.base_damage = StatedBase(calc)

\* a Physical move against Shedinja, whose defence is 0: the divisor is 1
C23_Witness ==
  /\ calc.pc = "done"
  /\ calc.status = 200
  /\ calc.mv.category = "Physical"
  /\ calc.defender_trim = "Shedinja"
  /\ calc.defStats.defence = 0
  /\ calc.details.base_damage = StatedBase(calc)
  /\ calc.details.base_damage > 2

\* the request that is answered has the body of the kept response
SameBody ==
  /\ kept.has
  /\ calc.attacker = kept.attacker
  /\ calc.defender = kept.defender
  /\ calc.move = kept.move
  /\ calc.attacker_level = kept.attacker_level

SwapTypes(rows) ==
  [i \in 1..Len(rows) |->
     [rows[i] EXCEPT !.type_name = rows[i].type_name1,
                     !.type_name1 = rows[i].type_name]]

\* the multiplier lines 405-419 give a move type against these rows
MultiplierOf(rows, type_name) ==
  IF SelectTypeData(type_name) = {} THEN Double(1)
  ELSE TypeFold(TypeNames(rows),
                CHOOSE td \in SelectTypeData(type_name) : TRUE, Double(1))

\* the kept response and the one being sent have the same attacker, move and
\* level, and Geodude (Rock, Ground) and Graveler (Ground, Rock) as defenders
SwappedDefenders ==
  /\ kept.has
  /\ calc.attacker = kept.attacker
  /\ calc.move = kept.move
  /\ calc.attacker_level = kept.attacker_level
  /\ {trim(calc.defender), trim(kept.defender)} = {"Geodude", "Graveler"}

\* C25: the defender's types count as a set: a type held by both columns
\* contributes its factor once, and exchanging the two columns changes
\* neither the type multiplier nor the damage.
C25_TypeSet ==
  /\ (calc.pc = "done" /\ calc.status = 200)
       => /\ calc.details.type_multiplier = StatedMultiplier(calc)
          /\ calc.details.type_multiplier =
               MultiplierOf(SwapTypes(SelectTypes(calc.defender_sid)),
                            calc.mv.type_name)
  /\ (calc.pc = "done" /\ SwappedDefenders
        /\ calc.status = 200 /\ kept.status = 200)
       => /\ calc.damage = kept.damage
          /\ calc.details = kept.details

\* Surf doubled twice against Geodude, and again against Graveler
C25_Witness ==
  /\ calc.pc = "done"
  /\ calc.status = 200
  /\ SwappedDefenders
  /\ kept.status = 200
  /\ calc.details.type_multiplier = Double(4)
  /\ calc.damage = kept.damage

\* ================================== two authFetch calls of one tab overlap
\* the queries of /auth/refresh after the SELECT of the token
RotateStep(r) ==
  \/ RotateDelete(r)
  \/ RotateIssue(r)
  \/ RefreshUser(r)

\* the fetch of /auth/refresh reaches a server whose SELECT is not rejected
AuthFetchRefreshOk(c, r) ==
  /\ AuthFetchRefresh(c, r)
  /\ req'[r].status # 500

\* the tab with the session it was loaded with, two calls of authFetch under
\* way at the same time, and a database that rejects no query of
\* /auth/refresh; the logout timer is armed but its callback has not run
NextOverlap ==
  \/ ClientTick
  \/ \E r \in Reqs : LogoutArrive(r)
  \/ \E r \in Reqs : Drop(r)
  \/ \E r \in Reqs : RotateStep(r) /\ UNCHANGED <<tab, calls, calc, kept, gymVars>>
  \/ \E c \in Calls, r \in Reqs : AuthFetchCall(c, r)
  \/ \E c \in Calls : AuthFetchFirst(c)
  \/ \E c \in Calls, r \in Reqs : AuthFetchRefreshOk(c, r)
  \/ \E c \in Calls : AuthFetchRefreshed(c)
  \/ \E c \in Calls, r \in Reqs : AuthFetchRetry(c, r)
  \/ \E c \in Calls : AuthFetchSecond(c)
  \/ \E c \in Calls : AuthFetchDone(c)

SpecOverlap == Init /\ [][NextOverlap]_vars

\* both calls were answered 401, read a refresh token and have completed,
\* before the refresh token the tab was loaded with expired
BothRefreshed ==
  /\ now <= InitToken.expires_at
  /\ \A c \in Calls :
       /\ calls[c].pc \in {"returned", "thrown"}
       /\ calls[c].refreshes = 1

\* the server accepts the refresh token of localStorage
StoredTokenValid ==
  \E row \in refresh_tokens :
    /\ row.token = tab.refreshToken
    /\ ~Expired(row, now)

\* C26: when two overlapping calls of authFetch are both answered 401 while
\* the server accepts the stored refresh token, both return the response of
\* their retry, neither logs out, and the server accepts the refresh token
\* that is left in localStorage.
C26_OverlapSurvives ==
  BothRefreshed
    => /\ \A c \in Calls : calls[c].pc = "returned" /\ calls[c].sends = 2
       /\ StoredTokenValid

\* both calls have read the same refresh token, which the server accepts
C26_SameTokenRead ==
  /\ \A c \in Calls : calls[c].pc = "sendR" /\ calls[c].refreshToken = tab.refreshToken
  /\ StoredTokenValid

\* both rotations selected the row before either deleted it: both calls
\* returned their retry
C26_BothReturned ==
  /\ BothRefreshed
  /\ \A c \in Calls : calls[c].pc = "returned" /\ calls[c].sends = 2

\* ======================================== refresh that fails after rotation
\* request r is a refresh that is answered in this step
RefreshAnswered(r) ==
  /\ req[r].kind = "refresh" \/ req[r].pc = "idle"
  /\ req[r].pc # "done"
  /\ req'[r].kind = "refresh"
  /\ req'[r].pc = "done"

\* C27: a POST /auth/refresh that answers 400, 401 or 500 leaves no token it
\* issued in storage: a row issued by a refresh is there only if its token
\* was returned in a 200 response.
C27_FailedRefreshIssuesNothing ==
  [][\A r \in Reqs :
       (RefreshAnswered(r) /\ req'[r].status # 200)
         => /\ nextToken' = nextToken
            /\ (req[r].newToken # 0
                  => \A x \in refresh_tokens' : x.token # req[r].newToken)]_vars

\* every failure answered before issueRefreshToken leaves storage without a
\* new row: only a request past its INSERT can fail with one
C27_FailureBeforeInsert ==
  [][\A r \in Reqs :
       (RefreshAnswered(r) /\ req'[r].status # 200 /\ req[r].pc # "r_user")
         => /\ nextToken' = nextToken
            /\ req[r].newToken = 0
            /\ refresh_tokens' \subseteq refresh_tokens]_vars

\* ================================================ rows of other sessions
\* request r takes a step of kind k in this step
StepOf(r, k) ==
  /\ req'[r] # req[r]
  /\ req'[r].kind = k

\* C28: login, refresh and logout touch only the token they concern. A row
\* leaves storage only in a step of a refresh or logout request that presented
\* its token; a row enters storage only in a step of a login or refresh, one
\* row per step, carrying a token no row carried before; all other rows, of
\* the same user and of other users, are left as they are.
C28_OnlyOwnToken ==
  [][/\ \A x \in refresh_tokens \ refresh_tokens' :
          \E r \in Reqs :
            /\ StepOf(r, "refresh") \/ StepOf(r, "logout")
            /\ req'[r].refreshToken = x.token
     /\ \A x \in refresh_tokens' \ refresh_tokens :
          /\ \E r \in Reqs : StepOf(r, "login") \/ StepOf(r, "refresh")
          /\ \A y \in refresh_tokens : y.token # x.token
     /\ Cardinality(refresh_tokens' \ refresh_tokens) <= 1
     /\ \A r \in Reqs :
          (StepOf(r, "login") /\ req'[r].status = 200)
            => /\ refresh_tokens \subseteq refresh_tokens'
               /\ Cardinality(refresh_tokens' \ refresh_tokens) = 1]_vars

\* a token of the player was rotated while the row of another login of the
\* player was in storage, and that row is still there
C28_Witness ==
  \E r \in Reqs :
    /\ RefreshDone(r, 200)
    /\ \E x \in refresh_tokens :
         /\ x.user_id = req[r].row.user_id
         /\ x.token # req[r].refreshToken
         /\ x.token # req[r].newToken
         /\ x.token < req[r].newToken

\* ======================================================= the gym tracker
\* everything but the gym tracker
otherVars ==
  <<users, admin, refresh_tokens, now, nextToken, req, held, tab, calls,
    calc, kept>>

\* gym_id of a body: missing, the last two gyms of Kanto, the second gym of
\* Johto, an id no gym has
GymIds == {0, 7, 8, 10, 99}

\* region of a body: missing or a region of gyms
Regions == {"", "Kanto", "Johto"}

\* end_date of a body: missing or a date
EndDates == {0, BodyDate}

\* req.user after authMiddleware, for a client logged in as user u
ReqUser(u) == authMiddlewareUser(signAccessToken(users[u], now))

PFree(r) ==
  /\ preq[r].pc = "idle"
  /\ \A r2 \in PReqs : r2 < r => preq[r2].pc # "idle"

PRespond(r, st, err) ==
  [preq EXCEPT ![r].pc = "done", ![r].status = st, ![r].error = err]

\* prev.length === 0 || !prev[0].end_date is false
PrevDone_Started(prev) == prev # {}

PrevDone(prev) == prev # {} /\ \A x \in prev : x.end_date # NULL

\* SELECT end_date FROM user_gym_progress up JOIN gyms g ON up.gym_id = g.id
\* WHERE g.region = ? AND g.gym_number = ? AND up.user_id = ?
SelectPrev(rows, region, gym_number, userId) ==
  {x \in rows :
     /\ x.user_id = userId
     /\ \E g \in gyms :
          g.id = x.gym_id /\ g.region = region /\ g.gym_number = gym_number}

\* INSERT ... VALUES (?, ?, CURDATE()) ON DUPLICATE KEY UPDATE start_date =
\* CURDATE(), for a table whose key is (user_id, k)
Upsert(rows, k, userId, id) ==
  IF \E x \in rows : x.user_id = userId /\ x[k] = id
  THEN {IF x.user_id = userId /\ x[k] = id
        THEN [x EXCEPT !.start_date = CURDATE] ELSE x : x \in rows}
  ELSE rows \cup {[user_id |-> userId, start_date |-> CURDATE, end_date |-> NULL]
                    @@ (k :> id)}

\* UPDATE ... SET end_date = ? or CURDATE() WHERE user_id = ? AND k = ? AND
\* start_date IS NOT NULL
SetEndDate(rows, k, userId, id, end_date) ==
  {IF x.user_id = userId /\ x[k] = id /\ x.start_date # NULL
   THEN [x EXCEPT !.end_date = IF end_date # 0 THEN end_date ELSE CURDATE]
   ELSE x : x \in rows}

\* POST /api/start-gym up to the result of its first query
StartGym(r) ==
  /\ PFree(r)
  /\ \E g \in GymIds :
       LET base == [NoPreq EXCEPT !.route = "start-gym", !.user = ReqUser(2),
                                  !.gym_id = g]
           gym == {x \in gyms : x.id = g}
       IN \/ preq' = [preq EXCEPT ![r] =
                 [base EXCEPT !.pc = "done", !.status = 500,
                              !.error = "Server error"]]
          \/ /\ gym = {}
             /\ preq' = [preq EXCEPT ![r] =
                  [base EXCEPT !.pc = "done", !.status = 404,
                               !.error = "Gym not found"]]
          \/ \E x \in gym :
               preq' = [preq EXCEPT ![r] =
                 [base EXCEPT !.pc = IF x.gym_number > 1 THEN "prev" ELSE "insert",
                              !.gym = {x}]]
  /\ UNCHANGED <<user_gym_progress, user_elite_four_progress, otherVars>>

\* the SELECT of the previous gym's row
StartGymPrev(r) ==
  /\ preq[r].pc = "prev"
  /\ \E g \in preq[r].gym :
       preq' = IF PrevDone(SelectPrev(user_gym_progress, g.region,
                                      g.gym_number - 1, preq[r].user.id))
               THEN [preq EXCEPT ![r].pc = "insert"]
               ELSE PRespond(r, 403, "Complete previous gym first")
  /\ UNCHANGED <<user_gym_progress, user_elite_four_progress, otherVars>>

\* the INSERT of start-gym, res.json({ success: true })
StartGymInsert(r) ==
  /\ preq[r].pc = "insert"
  /\ user_gym_progress' =
       Upsert(user_gym_progress, "gym_id", preq[r].user.id, preq[r].gym_id)
  /\ preq' = PRespond(r, 200, "")
  /\ UNCHANGED <<user_elite_four_progress, otherVars>>

\* POST /api/mark-gym-complete: after its UPDATE the handler returns
MarkGymComplete(r) ==
  /\ PFree(r)
  /\ \E g \in GymIds, e \in EndDates :
       LET base == [NoPreq EXCEPT !.route = "mark-gym-complete",
                                  !.user = ReqUser(2), !.gym_id = g,
                                  !.end_date = e]
       IN IF g = 0
          THEN /\ preq' = [preq EXCEPT ![r] =
                    [base EXCEPT !.pc = "done", !.status = 400,
                                 !.error = "gym_id is required"]]
               /\ UNCHANGED user_gym_progress
          ELSE \/ /\ preq' = [preq EXCEPT ![r] =
                       [base EXCEPT !.pc = "done", !.status = 500,
                                    !.error = "Server error"]]
                  /\ UNCHANGED user_gym_progress
               \/ /\ user_gym_progress' =
                       SetEndDate(user_gym_progress, "gym_id", 2, g, e)
                  /\ preq' = [preq EXCEPT ![r] = [base EXCEPT !.pc = "open"]]
  /\ UNCHANGED <<user_elite_four_progress, otherVars>>

\* POST /api/admin/fix-gym-end-date behind authMiddleware and
\* requireRole('admin'); userId = user_id || req.user?.id || 1
FixGymEndDate(r) ==
  /\ PFree(r)
  /\ \E u \in UserIds, uid \in {0, 2}, g \in GymIds, e \in EndDates :
       LET base == [NoPreq EXCEPT !.route = "fix-gym-end-date",
                                  !.user = ReqUser(u), !.gym_id = g,
                                  !.user_id = uid, !.end_date = e]
           userId == IF uid # 0 THEN uid ELSE u
       IN IF requireRole("admin", ReqUser(u)) # 0
          THEN /\ preq' = [preq EXCEPT ![r] =
                    [base EXCEPT !.pc = "done",
                                 !.status = requireRole("admin", ReqUser(u)),
                                 !.error = "Forbidden"]]
               /\ UNCHANGED user_gym_progress
          ELSE IF g = 0
          THEN /\ preq' = [preq EXCEPT ![r] =
                    [base EXCEPT !.pc = "done", !.status = 400,
                                 !.error = "gym_id is required"]]
               /\ UNCHANGED user_gym_progress
          ELSE \/ /\ preq' = [preq EXCEPT ![r] =
                       [base EXCEPT !.pc = "done", !.status = 500,
                                    !.error = "Server error"]]
                  /\ UNCHANGED user_gym_progress
               \/ /\ user_gym_progress' =
                       SetEndDate(user_gym_progress, "gym_id", userId, g, e)
                  /\ preq' = [preq EXCEPT ![r] =
                       [base EXCEPT !.pc = "done", !.status = 200]]
  /\ UNCHANGED <<user_elite_four_progress, otherVars>>

\* SELECT COUNT(*) ... WHERE up.user_id = ? AND g.region = ? AND
\* up.end_date IS NOT NULL
CountCompleted(rows, userId, region) ==
  Cardinality({x \in rows :
                 /\ x.user_id = userId
                 /\ x.end_date # NULL
                 /\ \E g \in gyms : g.id = x.gym_id /\ g.region = region})

\* POST /api/start-elite-four up to the result of its COUNT
StartEliteFour(r) ==
  /\ PFree(r)
  /\ \E reg \in Regions :
       LET base == [NoPreq EXCEPT !.route = "start-elite-four",
                                  !.user = ReqUser(2), !.region = reg]
       IN IF reg = ""
          THEN preq' = [preq EXCEPT ![r] =
                 [base EXCEPT !.pc = "done", !.status = 400,
                              !.error = "Region required"]]
          ELSE \/ preq' = [preq EXCEPT ![r] =
                      [base EXCEPT !.pc = "done", !.status = 500,
                                   !.error = "Server error"]]
               \/ preq' = [preq EXCEPT ![r] =
                      IF CountCompleted(user_gym_progress, 2, reg) < 8
                      THEN [base EXCEPT !.pc = "done", !.status = 403,
                                        !.error = "You must defeat all 8 gyms first!"]
                      ELSE [base EXCEPT !.pc = "e_insert"]]
  /\ UNCHANGED <<user_gym_progress, user_elite_four_progress, otherVars>>

\* the INSERT of start-elite-four, res.json({success: true})
StartEliteInsert(r) ==
  /\ preq[r].pc = "e_insert"
  /\ user_elite_four_progress' =
       Upsert(user_elite_four_progress, "region", preq[r].user.id, preq[r].region)
  /\ preq' = PRespond(r, 200, "")
  /\ UNCHANGED <<user_gym_progress, otherVars>>

\* POST /api/complete-elite-four: after its UPDATE the handler returns
CompleteEliteFour(r) ==
  /\ PFree(r)
  /\ \E reg \in Regions, e \in EndDates :
       LET base == [NoPreq EXCEPT !.route = "complete-elite-four",
                                  !.user = ReqUser(2), !.region = reg,
                                  !.end_date = e]
       IN \/ /\ preq' = [preq EXCEPT ![r] =
                  [base EXCEPT !.pc = "done", !.status = 500,
                               !.error = "Server error"]]
             /\ UNCHANGED user_elite_four_progress
          \/ /\ user_elite_four_progress' =
                  SetEndDate(user_elite_four_progress, "region", 2, reg, e)
             /\ preq' = [preq EXCEPT ![r] = [base EXCEPT !.pc = "open"]]
  /\ UNCHANGED <<user_gym_progress, otherVars>>

\* the database rejects the query the request is waiting for: catch -> 500
ProgressDbError(r) ==
  /\ preq[r].pc \in {"prev", "insert", "e_insert"}
  /\ preq' = PRespond(r, 500, "Server error")
  /\ UNCHANGED <<user_gym_progress, user_elite_four_progress, otherVars>>

\* the response has been delivered and the slot is free again
ProgressFinish(r) ==
  /\ preq[r].pc = "done"
  /\ preq' = [preq EXCEPT ![r] = NoPreq]
  /\ UNCHANGED <<user_gym_progress, user_elite_four_progress, otherVars>>

\* the client of a request that got no response gives up and closes the
\* connection
Abandon(r) ==
  /\ preq[r].pc = "open"
  /\ preq' = [preq EXCEPT ![r] = NoPreq]
  /\ UNCHANGED <<user_gym_progress, user_elite_four_progress, otherVars>>

\* the queries of the requests under way
ProgressStep(r) ==
  \/ StartGymPrev(r)
  \/ StartGymInsert(r)
  \/ StartEliteInsert(r)

NextProgress ==
  \/ \E r \in PReqs : StartGym(r)
  \/ \E r \in PReqs : MarkGymComplete(r)
  \/ \E r \in PReqs : FixGymEndDate(r)
  \/ \E r \in PReqs : StartEliteFour(r)
  \/ \E r \in PReqs : CompleteEliteFour(r)
  \/ \E r \in PReqs : ProgressStep(r)
  \/ \E r \in PReqs : ProgressDbError(r)
  \/ \E r \in PReqs : ProgressFinish(r)
  \/ \E r \in PReqs : Abandon(r)

SpecProgress == Init /\ [][NextProgress]_vars

\* every query completes and every response is delivered
SpecProgressFair ==
  /\ SpecProgress
  /\ \A r \in PReqs : WF_vars(ProgressStep(r)) /\ WF_vars(ProgressFinish(r))

\* ================================================== gyms started in order
\* user userId has a row with an end_date for the gym before gym g of its
\* region
PreviousCompleted(userId, g) ==
  \E y \in user_gym_progress :
    /\ y.user_id = userId
    /\ y.end_date # NULL
    /\ \E h \in gyms :
         /\ h.id = y.gym_id
         /\ h.region = g.region
         /\ h.gym_number = g.gym_number - 1

\* C29: gyms of a region are started in order. A user has a row for gym
\* number n > 1 only if the same user's row for gym n - 1 of that region has
\* an end_date, and a start-gym request for a gym n > 1 whose previous gym is
\* not completed is answered 403 (500 when the query is rejected) and writes
\* nothing.
C29_GymsInOrder ==
  /\ [](\A x \in user_gym_progress :
          \A g \in gyms :
            (g.id = x.gym_id /\ g.gym_number > 1)
              => PreviousCompleted(x.user_id, g))
  /\ [][\A r \in PReqs :
          (/\ preq[r].pc = "prev"
           /\ preq'[r] # preq[r]
           /\ \E g \in preq[r].gym : ~PreviousCompleted(preq[r].user.id, g))
          => /\ preq'[r].pc = "done"
             /\ preq'[r].status \in {403, 500}
             /\ user_gym_progress' = user_gym_progress]_vars

\* the player has started gym 8 after completing gym 7, and a start of the
\* second gym of Johto was refused
C29_Witness ==
  /\ \E x \in user_gym_progress : x.user_id = 2 /\ x.gym_id = 8
  /\ \E r \in PReqs :
       /\ preq[r].route = "start-gym"
       /\ preq[r].gym_id = 10
       /\ preq[r].pc = "done"
       /\ preq[r].status = 403

\* ============================================ every request is answered
\* C30: every request accepted by an authenticated progress route eventually
\* receives a response, mark-gym-complete and complete-elite-four included.
C30_EveryRequestAnswered ==
  \A r \in PReqs : [](preq[r].pc # "idle" => <>(preq[r].pc = "done"))

\* the routes that call res.json after their last query answer every request
C30_OthersAnswered ==
  \A r \in PReqs :
    [](preq[r].route \in {"start-gym", "start-elite-four", "fix-gym-end-date"}
         => <>(preq[r].pc = "done"))

\* a request of mark-gym-complete or complete-elite-four is answered only
\* with an error: no step gives it a 2xx response
C30_OnlyErrorsAnswered ==
  \A r \in PReqs :
    (preq[r].route \in {"mark-gym-complete", "complete-elite-four"}
       /\ preq[r].pc = "done")
      => preq[r].status \in {400, 500}

\* the UPDATE of mark-gym-complete has set the end_date of gym 7 and the
\* handler has returned without a response
C30_Updated ==
  \E r \in PReqs :
    /\ preq[r].route = "mark-gym-complete"
    /\ preq[r].pc = "open"
    /\ \E x \in user_gym_progress : x.gym_id = 7 /\ x.end_date # NULL
====
